---- MODULE Spec2Model ----
(***************************************************************************)
(* Model of the order-service agent of bc-reference-agent.                 *)
(*                                                                         *)
(* State: the orders table of the SQLite store (OrderRepository), the      *)
(* per-context session state and conversation history of ShippingAgent,    *)
(* and the llm_enabled setting.  One action, Turn, is one call of          *)
(* ShippingAgent.process_message; the table is a database file that other  *)
(* writers share, which StoreDelete and StoreRestore stand for.            *)
(*                                                                         *)
(* A message is modelled by what the extraction functions return for it    *)
(* (order id, email, date, address, confirmation and cancellation flags);  *)
(* the calls of one context are processed one at a time, and a call runs   *)
(* to its end before the next one starts.                                  *)
(***************************************************************************)
EXTENDS Integers, Sequences, FiniteSets, TLC

VARIABLES llm_enabled, orders, session_state, conversation_history, out

\* A2AHandler: the task dicts it has created (a task is an object that
\* self._tasks and the local variable of a suspended send_message both refer
\* to), self._tasks, self._contexts, the send_message calls suspended at
\* their await, the clock datetime.now reads, and what the last call of the
\* handler, of the repository or of the JSON-RPC endpoint returned
VARIABLES task_objects, _tasks, _contexts, awaiting, clock, returned

\* IMSTokenValidator: self._cache and the calls made to the IMS userinfo
\* endpoint; SessionManager: self._sessions and self._user_sessions; the time
\* time.time() and datetime.now(UTC) read
VARIABLES _cache, _sessions, _user_sessions, ims_calls, time

\* the day on which datetime.now() is read in the date resolver
VARIABLES today

agent_vars == <<llm_enabled, orders, session_state, conversation_history, out>>

handler_vars == <<task_objects, _tasks, _contexts, awaiting, clock, returned>>

auth_vars == <<_cache, _sessions, _user_sessions, ims_calls, time>>

date_vars == <<today>>

vars == <<llm_enabled, orders, session_state, conversation_history, out,
          task_objects, _tasks, _contexts, awaiting, clock, returned,
          _cache, _sessions, _user_sessions, ims_calls, time, today>>

\* Python's None, for the optional strings of the model.
None == "None"

----------------------------------------------------------------------------
(* Bounds and the small sets the inputs are drawn from *)

\* conversation_history is unbounded in the code; a text completion is only
\* answered while the two entries it appends still fit.
MaxHistory == 2

Contexts == {"c1", "c2"}
\* the contexts whose turns Spec runs
TurnContexts == {"c1"}
OrderIds == {"O1"}
Dates == {"d1", "d2"}
AddressNames == {"a1"}

\* e-mail spellings a message can carry: "E1@X" is "e1@x" in another case
MessageEmails == {"e1@x", "e2@x"}

PendingDate == "pending_date_update"
PendingAddress == "pending_address_update"
VerifiedOrder == "verified_order"

----------------------------------------------------------------------------
(* Python dict helpers *)

\* d.pop(k, None)
Pop(d, k) == [x \in DOMAIN d \ {k} |-> d[x]]

\* d[k] = v
Put(d, k, v) == [x \in DOMAIN d \cup {k} |-> IF x = k THEN v ELSE d[x]]

\* d.update(u)
Update(d, u) == [x \in DOMAIN d \cup DOMAIN u |-> IF x \in DOMAIN u THEN u[x] ELSE d[x]]

\* str.upper() and str.lower() on the strings of the model (SQL's UPPER and
\* LOWER agree with them on these strings)
Upper(s) ==
    CASE s = "o1" -> "O1"
      [] s = "o2" -> "O2"
      [] s = " o1 " -> " O1 "
      [] s = "e1@x" -> "E1@X"
      [] s = "E1@x" -> "E1@X"
      [] s = " E1@x " -> " E1@X "
      [] s = " e1@x " -> " E1@X "
      [] s = "e2@x" -> "E2@X"
      [] OTHER -> s

Lower(s) ==
    CASE s = "O1" -> "o1"
      [] s = "O2" -> "o2"
      [] s = " O1 " -> " o1 "
      [] s = "E1@X" -> "e1@x"
      [] s = "E1@x" -> "e1@x"
      [] s = " E1@x " -> " e1@x "
      [] s = " E1@X " -> " e1@x "
      [] s = "E2@X" -> "e2@x"
      [] s = "Web" -> "web"
      [] OTHER -> s

\* str.strip() on the strings of the model
Strip(s) ==
    CASE s = " o1 " -> "o1"
      [] s = " O1 " -> "O1"
      [] s = " E1@x " -> "E1@x"
      [] s = " e1@x " -> "e1@x"
      [] s = " E1@X " -> "E1@X"
      [] OTHER -> s

----------------------------------------------------------------------------
(* The orders table *)

SeedEmail(o) == IF o = "O1" THEN "e1@x" ELSE "e2@x"

\* the row of order o as the database file ships it
SeedRow(o) ==
    [order_id |-> o, first_name |-> "fn", last_name |-> "ln",
     email |-> SeedEmail(o), street |-> "s0", city |-> "c0",
     state |-> "st0", zipcode |-> "z0", delivery_date |-> "d0"]

MatchingRows_NoStrip(tbl, order_id, email) ==
    {k \in DOMAIN tbl : /\ Upper(tbl[k].order_id) = Upper(order_id)
                        /\ Lower(tbl[k].email) = Lower(email)}

\* rows matched by WHERE UPPER(order_id) = ? AND LOWER(email) = ? with the
\* parameters (order_id.upper().strip(), email.lower().strip())
MatchingRows(tbl, order_id, email) ==
    {k \in DOMAIN tbl : /\ Upper(tbl[k].order_id) = Strip(Upper(order_id))
                        /\ Lower(tbl[k].email) = Strip(Lower(email))}

\* OrderRepository.find_by_order_id_and_email: the set of rows found (empty
\* for None); fetchone() takes one of them
find_by_order_id_and_email(tbl, order_id, email) ==
    LET hits == MatchingRows(tbl, order_id, email)
    IN  IF hits = {} THEN {} ELSE {tbl[CHOOSE k \in hits : TRUE]}

update_order_WholeRow(tbl, order_id, email, update_dict) ==
    IF DOMAIN update_dict = {}
    THEN [success |-> FALSE, orders |-> tbl]
    ELSE LET hits == MatchingRows(tbl, order_id, email)
         IN  [success |-> hits # {},
              orders |-> [k \in DOMAIN tbl |->
                            IF k \in hits
                            THEN Update([tbl[k] EXCEPT !.delivery_date = "d0"],
                                        update_dict)
                            ELSE tbl[k]]]

update_order_AcceptsEmpty(tbl, order_id, email, update_dict) ==
    LET hits == MatchingRows(tbl, order_id, email)
    IN  [success |-> hits # {},
         orders |-> [k \in DOMAIN tbl |->
                       IF k \in hits THEN Update(tbl[k], update_dict)
                       ELSE tbl[k]]]

\* OrderRepository.update_order: (success, table after the call)
update_order_EveryRow(tbl, order_id, email, update_dict) ==
    IF DOMAIN update_dict = {}
    THEN [success |-> FALSE, orders |-> tbl]
    ELSE [success |-> MatchingRows(tbl, order_id, email) # {},
          orders |-> [k \in DOMAIN tbl |-> Update(tbl[k], update_dict)]]

update_order(tbl, order_id, email, update_dict) ==
    IF DOMAIN update_dict = {}
    THEN [success |-> FALSE, orders |-> tbl]
    ELSE LET hits == MatchingRows(tbl, order_id, email)
         IN  [success |-> hits # {},
              orders |-> [k \in DOMAIN tbl |->
                            IF k \in hits THEN Update(tbl[k], update_dict)
                            ELSE tbl[k]]]

\* OrderUpdate(**updates): zipcode must match ^\d{5}$
ValidZipcodes == {"z0", "z1"}

OrderUpdateValid(updates) ==
    "zipcode" \in DOMAIN updates => updates["zipcode"] \in ValidZipcodes

\* OrderUpdate.to_dict: the fields of the model that are set
OrderUpdateFields == {"delivery_date", "street", "city", "state", "zipcode"}

to_dict(updates) ==
    [k \in {f \in DOMAIN updates \cap OrderUpdateFields : updates[f] # None}
        |-> updates[k]]

----------------------------------------------------------------------------
(* ShippingAgent helpers *)

\* ShippingAgent._find_order: the row as a dict
_find_order(tbl, order_id, email) ==
    find_by_order_id_and_email(tbl, order_id, email)

\* ShippingAgent._update_order
_update_order(tbl, order_id, email, updates) ==
    IF ~OrderUpdateValid(updates)
    THEN [success |-> FALSE, orders |-> tbl]
    ELSE update_order(tbl, order_id, email, to_dict(updates))

\* ShippingAgent._extract_new_address: the dict for the address in the message
AddressDict(a) ==
    [street |-> "s1", city |-> "c1", state |-> "st1", zipcode |-> "z1"]

\* the messages: what _extract_order_info, _extract_new_date,
\* _extract_new_address, _is_confirmation and _is_cancellation return
\* (an order id without an email, or an email alone, verifies nothing: the
\* messages carry both or neither)
Messages ==
    {m \in [order_id : OrderIds \cup {None},
            email : MessageEmails \cup {None},
            date : Dates \cup {None},
            address : AddressNames \cup {None},
            confirm : BOOLEAN,
            cancel : BOOLEAN] :
        (m.order_id = None) <=> (m.email = None)}

\* context_info, the text process_message adds to the system prompt, by the
\* markers it holds; the two PENDING markers carry the literal staged value
NoInfo ==
    [order_not_found |-> FALSE, verified_order_context |-> FALSE,
     cancelled |-> FALSE, pending_date_change |-> None,
     pending_address_change |-> None]

\* what a call of process_message leaves behind when it returns: its reply,
\* context_info, update_result and the _update_order calls it made
NoOut ==
    [context_id |-> None, reply |-> None, context_info |-> NoInfo,
     update_result |-> None, issued |-> <<>>]

----------------------------------------------------------------------------
(* ShippingAgent.process_message *)

\* the dict a successful verification stores for the context
VerifiedState(order) == (VerifiedOrder :> order)

\* "Handle cancellation": the message cancels and a change is pending
CancelsPending(st, m) ==
    m.cancel /\ (PendingDate \in DOMAIN st \/ PendingAddress \in DOMAIN st)

\* (mutant) a cancellation clears the pending date only
AfterCancel_DateOnly(st, m) ==
    IF CancelsPending(st, m) THEN Pop(st, PendingDate) ELSE st

\* (mutant) a cancellation resets the whole state dict
AfterCancel_ClearsAll(st, m) ==
    IF CancelsPending(st, m) THEN <<>> ELSE st

\* the dict after the cancellation block
AfterCancel(st, m) ==
    IF CancelsPending(st, m) THEN Pop(Pop(st, PendingDate), PendingAddress) ELSE st

\* "User provided new date - store as pending, don't auto-update"
StageDate(st, m) ==
    IF m.date # None THEN Put(st, PendingDate, m.date) ELSE st

\* (mutant) the pending date is applied without a confirmation
ConfirmsDate_NoConfirm(st, m) ==
    m.date = None /\ PendingDate \in DOMAIN st

\* (mutant) a confirmation applies the pending date although the message
\* carries a new date
ConfirmsDate_IgnoresNewDate(st, m) ==
    m.confirm /\ PendingDate \in DOMAIN st

\* date_to_update is set: no new date, a confirmation, and a pending date
ConfirmsDate(st, m) ==
    m.date = None /\ m.confirm /\ PendingDate \in DOMAIN st

\* (mutant) a successful date update leaves the pending date in place
AfterDateUpdate_KeepsPending(st, date_to_update, success) ==
    IF success
    THEN Put(st, VerifiedOrder,
             [st[VerifiedOrder] EXCEPT !.delivery_date = date_to_update])
    ELSE st

\* (mutant) the pending date is cleared whether or not the update succeeded
AfterDateUpdate_ClearsOnFailure(st, date_to_update, success) ==
    IF success
    THEN Pop(Put(st, VerifiedOrder,
                 [st[VerifiedOrder] EXCEPT !.delivery_date = date_to_update]),
             PendingDate)
    ELSE Pop(st, PendingDate)

\* the dict after the date update returned: on success the snapshot takes the
\* date and the pending date is cleared, on failure nothing changes
AfterDateUpdate(st, date_to_update, success) ==
    IF success
    THEN Pop(Put(st, VerifiedOrder,
                 [st[VerifiedOrder] EXCEPT !.delivery_date = date_to_update]),
             PendingDate)
    ELSE st

\* "User provided new address - store as pending, don't auto-update"
StageAddress(st, m) ==
    IF m.address # None THEN Put(st, PendingAddress, AddressDict(m.address)) ELSE st

\* address_to_update is set: no new address, a confirmation, a pending address
ConfirmsAddress(st, m) ==
    m.address = None /\ m.confirm /\ PendingAddress \in DOMAIN st

\* (mutant) a successful address update leaves the pending address in place
AfterAddressUpdate_KeepsPending(st, address_to_update, success) ==
    IF success
    THEN Put(st, VerifiedOrder, Update(st[VerifiedOrder], address_to_update))
    ELSE st

\* the dict after the address update returned
AfterAddressUpdate(st, address_to_update, success) ==
    IF success
    THEN Pop(Put(st, VerifiedOrder, Update(st[VerifiedOrder], address_to_update)),
             PendingAddress)
    ELSE st

\* update_result after the address block: the address block's result replaces
\* the date block's
UpdateResult(date_called, date_ok, address_called, address_ok) ==
    IF address_called
    THEN (IF address_ok THEN "address_updated" ELSE "address_failed")
    ELSE IF date_called
    THEN (IF date_ok THEN "date_updated" ELSE "date_failed")
    ELSE None

\* one call of _update_order, as the log of the turn keeps it
Call(order, updates, success) ==
    [order_id |-> order.order_id, email |-> order.email,
     updates |-> updates, success |-> success]

\* "Check if user has a verified order and wants to make updates": the block
\* under `if verified_order`, for the state dict st of the context
UpdateSection(st, tbl, m, info0) ==
    LET vo == st[VerifiedOrder]
        st1 == AfterCancel(st, m)
        cancelled == CancelsPending(st, m)
        \* the date
        st2 == StageDate(st1, m)
        date_called == ConfirmsDate(st1, m)
        date_to_update == IF date_called THEN st1[PendingDate] ELSE None
        r1 == IF date_called
              THEN _update_order(tbl, vo.order_id, vo.email,
                                 ("delivery_date" :> date_to_update))
              ELSE [success |-> FALSE, orders |-> tbl]
        st3 == IF date_called
               THEN AfterDateUpdate(st2, date_to_update, r1.success) ELSE st2
        \* the address
        st4 == StageAddress(st3, m)
        address_called == ConfirmsAddress(st3, m)
        r2 == IF address_called
              THEN _update_order(r1.orders, vo.order_id, vo.email, st3[PendingAddress])
              ELSE [success |-> FALSE, orders |-> r1.orders]
        st5 == IF address_called
               THEN AfterAddressUpdate(st4, st3[PendingAddress], r2.success)
               ELSE st4
    IN  [state |-> st5,
         orders |-> r2.orders,
         context_info |->
             [info0 EXCEPT !.cancelled = cancelled,
                           !.pending_date_change = m.date,
                           !.pending_address_change = m.address],
         update_result |->
             UpdateResult(date_called, r1.success, address_called, r2.success),
         issued |->
             (IF date_called
              THEN <<Call(vo, ("delivery_date" :> date_to_update), r1.success)>>
              ELSE <<>>)
             \o (IF address_called
                 THEN <<Call(vo, st3[PendingAddress], r2.success)>>
                 ELSE <<>>)]

\* both an order id and an email were extracted
HasOrderInfo(m) == m.order_id # None /\ m.email # None

\* ShippingAgent._fallback_response: (session state, reply)
_fallback_response_ForgetsContext(ss, tbl, c, m) ==
    LET found == IF HasOrderInfo(m) THEN _find_order(tbl, m.order_id, m.email) ELSE {}
    IN  IF HasOrderInfo(m)
        THEN IF found # {}
             THEN [session_state |->
                       IF c # None
                       THEN Put(ss, c, VerifiedState(CHOOSE o \in found : TRUE))
                       ELSE ss,
                   reply |-> "fallback_verified"]
             ELSE [session_state |-> Pop(ss, c), reply |-> "fallback_not_found"]
        ELSE [session_state |-> ss, reply |-> "fallback_default"]

_fallback_response(ss, tbl, c, m) ==
    LET found == IF HasOrderInfo(m) THEN _find_order(tbl, m.order_id, m.email) ELSE {}
    IN  IF HasOrderInfo(m)
        THEN IF found # {}
             THEN [session_state |->
                       IF c # None
                       THEN Put(ss, c, VerifiedState(CHOOSE o \in found : TRUE))
                       ELSE ss,
                   reply |-> "fallback_verified"]
             ELSE [session_state |-> ss, reply |-> "fallback_not_found"]
        ELSE [session_state |-> ss, reply |-> "fallback_default"]

\* ShippingAgent._build_context
_build_context(ss, c) ==
    IF c # None /\ c \in DOMAIN ss /\ VerifiedOrder \in DOMAIN ss[c]
    THEN [NoInfo EXCEPT !.verified_order_context = TRUE] ELSE NoInfo

\* ShippingAgent._add_to_history, for the user message and the reply
AddToHistory_OneList(h, c) ==
    IF c # None THEN [k \in DOMAIN h |-> h[k] \o <<"user", "assistant">>] ELSE h

AddToHistory(h, c) ==
    IF c # None THEN [h EXCEPT ![c] = @ \o <<"user", "assistant">>] ELSE h

\* process_message from its update section on (the order lookup found nothing
\* or was not tried): the state, table and history it leaves, and its record
AfterLookup(ss, tbl, h, c, m, llm_ok, info0) ==
    LET in_state == c # None /\ c \in DOMAIN ss /\ VerifiedOrder \in DOMAIN ss[c]
        u == IF in_state THEN UpdateSection(ss[c], tbl, m, info0)
             ELSE [state |-> <<>>, orders |-> tbl, context_info |-> info0,
                   update_result |-> None, issued |-> <<>>]
        ss1 == IF in_state THEN Put(ss, c, u.state) ELSE ss
        fb == _fallback_response(ss1, u.orders, c, m)
    IN  [session_state |-> IF llm_ok THEN ss1 ELSE fb.session_state,
         orders |-> u.orders,
         conversation_history |-> IF llm_ok THEN AddToHistory(h, c) ELSE h,
         out |-> [context_id |-> c,
                  reply |-> IF llm_ok THEN "llm" ELSE fb.reply,
                  context_info |-> u.context_info,
                  update_result |-> u.update_result,
                  issued |-> u.issued]]

\* ShippingAgent.process_message(message, context_id), with the outcome of
\* the text-completion call (llm_ok) as an input
process_message(ss, tbl, h, c, m, llm_ok) ==
    LET found == IF HasOrderInfo(m) THEN _find_order(tbl, m.order_id, m.email) ELSE {}
        fb == _fallback_response(ss, tbl, c, m)
    IN  IF ~llm_enabled
        THEN [session_state |-> fb.session_state, orders |-> tbl,
              conversation_history |-> h,
              out |-> [NoOut EXCEPT !.context_id = c, !.reply = fb.reply]]
        ELSE IF HasOrderInfo(m) /\ found # {}
        THEN [session_state |->
                  IF c # None
                  THEN Put(ss, c, VerifiedState(CHOOSE o \in found : TRUE))
                  ELSE ss,
              orders |-> tbl,
              conversation_history |-> h,
              out |-> [NoOut EXCEPT !.context_id = c, !.reply = "greeting"]]
        ELSE AfterLookup(ss, tbl, h, c, m, llm_ok,
                         IF HasOrderInfo(m)
                         THEN [NoInfo EXCEPT !.order_not_found = TRUE]
                         ELSE _build_context(ss, c))

----------------------------------------------------------------------------
(* The state machine *)

\* A2AHandler.__init__: no task, no context, no call in flight
HandlerIdle ==
    /\ task_objects = <<>>
    /\ _tasks = <<>>
    /\ _contexts = <<>>
    /\ awaiting = {}
    /\ clock = 0
    /\ returned = [op |-> None]

\* IMSTokenValidator.__init__ and SessionManager.__init__: nothing cached, no
\* session
AuthIdle ==
    /\ _cache = <<>>
    /\ _sessions = <<>>
    /\ _user_sessions = <<>>
    /\ ims_calls = 0
    /\ time = 0

\* the date resolver is not in use: one fixed day
DateIdle == today = [year |-> 2024, month |-> 1, day |-> 1]

Init ==
    /\ llm_enabled \in BOOLEAN
    /\ orders = [o \in OrderIds |-> SeedRow(o)]
    /\ session_state = <<>>
    /\ conversation_history = [c \in Contexts |-> <<>>]
    /\ out = NoOut
    /\ HandlerIdle
    /\ AuthIdle
    /\ DateIdle

\* the bound on conversation_history: the text completion answers only while
\* its two entries fit
HistoryFits(c, llm_ok) ==
    IF llm_ok /\ c # None
    THEN Len(conversation_history[c]) + 2 <= MaxHistory
    ELSE TRUE

\* one call of process_message
Turn(c, m, llm_ok) ==
    /\ HistoryFits(c, llm_ok)
    /\ LET r == process_message(session_state, orders, conversation_history,
                                c, m, llm_ok)
       IN  /\ session_state' = r.session_state
           /\ orders' = r.orders
           /\ conversation_history' = r.conversation_history
           /\ out' = r.out
    /\ UNCHANGED llm_enabled
    /\ UNCHANGED handler_vars
    /\ UNCHANGED <<auth_vars, date_vars>>

\* another writer of the database file removes the row of order o
StoreDelete(o) ==
    /\ o \in DOMAIN orders
    /\ orders' = [k \in DOMAIN orders \ {o} |-> orders[k]]
    /\ UNCHANGED <<llm_enabled, session_state, conversation_history, out>>
    /\ UNCHANGED handler_vars
    /\ UNCHANGED <<auth_vars, date_vars>>

\* another writer of the database file puts the row of order o back
StoreRestore(o) ==
    /\ o \notin DOMAIN orders
    /\ orders' = Put(orders, o, SeedRow(o))
    /\ UNCHANGED <<llm_enabled, session_state, conversation_history, out>>
    /\ UNCHANGED handler_vars
    /\ UNCHANGED <<auth_vars, date_vars>>

Next ==
    \/ \E c \in TurnContexts \cup {None}, m \in Messages, llm_ok \in BOOLEAN :
           Turn(c, m, llm_ok)
    \/ \E o \in OrderIds : StoreDelete(o)
    \/ \E o \in OrderIds : StoreRestore(o)

Spec == Init /\ [][Next]_vars

----------------------------------------------------------------------------
(* What the claims speak of *)

\* who can call process_message in Spec: a context, or no context id
Callers == TurnContexts \cup {None}

\* what process_message returns for an input in the current state
Result(c, m, llm_ok) ==
    process_message(session_state, orders, conversation_history, c, m, llm_ok)

\* context c has a verified order
IsVerified(ss, c) == c \in DOMAIN ss /\ VerifiedOrder \in DOMAIN ss[c]

\* context c has a pending change in the slot
HasPending(ss, c, slot) == c \in DOMAIN ss /\ slot \in DOMAIN ss[c]

\* the message carries an order id and an email that the store matches
Verifies(tbl, m) ==
    HasOrderInfo(m) /\ _find_order(tbl, m.order_id, m.email) # {}

\* the calls of a turn that update the delivery date, and the address
DateCalls(issued) ==
    {i \in DOMAIN issued : "delivery_date" \in DOMAIN issued[i].updates}

AddressCalls(issued) ==
    {i \in DOMAIN issued : "street" \in DOMAIN issued[i].updates}

AddressFields == {"street", "city", "state", "zipcode"}

\* the table holds the same delivery dates (addresses) in tbl2 as in tbl1
SameDates(tbl1, tbl2) ==
    /\ DOMAIN tbl1 = DOMAIN tbl2
    /\ \A k \in DOMAIN tbl1 : tbl2[k].delivery_date = tbl1[k].delivery_date

SameAddresses(tbl1, tbl2) ==
    /\ DOMAIN tbl1 = DOMAIN tbl2
    /\ \A k \in DOMAIN tbl1 : \A f \in AddressFields : tbl2[k][f] = tbl1[k][f]

\* the update made by call u took the value of the slot of state dict st
WritesPending(u, st) ==
    \/ /\ PendingDate \in DOMAIN st
       /\ u.updates = ("delivery_date" :> st[PendingDate])
    \/ /\ PendingAddress \in DOMAIN st
       /\ u.updates = st[PendingAddress]

----------------------------------------------------------------------------
(* C1 *)

\* every update a turn issues is issued for a confirming message, in a
\* verified context, with the value the pending slot held before the turn
C1_IssuedWereStaged ==
    \A c \in Callers, m \in Messages, llm_ok \in BOOLEAN :
        LET issued == Result(c, m, llm_ok).out.issued
        IN  \A i \in DOMAIN issued :
                /\ m.confirm
                /\ IsVerified(session_state, c)
                /\ WritesPending(issued[i], session_state[c])

\* a pending slot takes a new value only in a turn of its context whose
\* message carried that value, and a row of the table changes only by a
\* successful call of the turn
C1_SlotsFilledByStaging ==
    /\ \A c \in Contexts :
          /\ (/\ HasPending(session_state', c, PendingDate)
              /\ (HasPending(session_state, c, PendingDate) =>
                    session_state'[c][PendingDate] # session_state[c][PendingDate]))
             => /\ out'.context_id = c
                /\ out'.context_info.pending_date_change = session_state'[c][PendingDate]
          /\ (/\ HasPending(session_state', c, PendingAddress)
              /\ (HasPending(session_state, c, PendingAddress) =>
                    session_state'[c][PendingAddress] # session_state[c][PendingAddress]))
             => /\ out'.context_id = c
                /\ out'.context_info.pending_address_change # None
                /\ session_state'[c][PendingAddress]
                     = AddressDict(out'.context_info.pending_address_change)
    /\ \A k \in DOMAIN orders \cap DOMAIN orders' :
          orders'[k] # orders[k] =>
              \E i \in DOMAIN out'.issued :
                  /\ out'.issued[i].success
                  /\ \A f \in DOMAIN out'.issued[i].updates :
                         orders'[k][f] = out'.issued[i].updates[f]

\* C1: Over any sequence of turns handled by process_message, every
\* order-store update is issued in a turn whose message carries a confirmation
\* signal, and the value it writes is exactly the value that an earlier turn of
\* the same context staged in the pending date or pending address slot; no
\* update is ever issued with a value that was not staged first.
C1_UpdatesOnlyConfirmStaged ==
    [](C1_IssuedWereStaged) /\ [][C1_SlotsFilledByStaging]_vars

\* a turn has just applied a staged date: the call succeeded and the table
\* holds the value
C1_Witness ==
    /\ out.context_id = "c1"
    /\ Len(out.issued) = 1
    /\ out.issued[1].success
    /\ out.issued[1].updates = ("delivery_date" :> "d1")
    /\ "O1" \in DOMAIN orders
    /\ orders["O1"].delivery_date = "d1"

----------------------------------------------------------------------------
(* C2 *)

\* the claim as stated: in a verified context every message with a new date
\* (address) leaves it in the pending slot and the stored field as it was
C2_Original ==
    \A c \in TurnContexts, m \in Messages, llm_ok \in BOOLEAN :
        IsVerified(session_state, c) =>
            LET r == Result(c, m, llm_ok)
            IN  /\ m.date # None =>
                     /\ HasPending(r.session_state, c, PendingDate)
                     /\ r.session_state[c][PendingDate] = m.date
                     /\ SameDates(orders, r.orders)
                /\ m.address # None =>
                     /\ HasPending(r.session_state, c, PendingAddress)
                     /\ r.session_state[c][PendingAddress] = AddressDict(m.address)
                     /\ SameAddresses(orders, r.orders)

\* the turn reaches the update section: the text completion is enabled and
\* the message does not verify an order
ReachesUpdateSection(m) == llm_enabled /\ ~Verifies(orders, m)

\* C2 (amended): In a context with a verified order, a turn whose message
\* yields a new date (or a new address) leaves the store untouched for that
\* field: the store's delivery date (or address) is the same after the turn as
\* before it; when the text completion is enabled and the message does not
\* carry an order id and email that the store matches, the turn puts that
\* value in the corresponding pending slot.
C2_StagingLeavesStore ==
    \A c \in TurnContexts, m \in Messages, llm_ok \in BOOLEAN :
        IsVerified(session_state, c) =>
            LET r == Result(c, m, llm_ok)
            IN  /\ m.date # None =>
                     /\ SameDates(orders, r.orders)
                     /\ ReachesUpdateSection(m) =>
                          /\ HasPending(r.session_state, c, PendingDate)
                          /\ r.session_state[c][PendingDate] = m.date
                /\ m.address # None =>
                     /\ SameAddresses(orders, r.orders)
                     /\ ReachesUpdateSection(m) =>
                          /\ HasPending(r.session_state, c, PendingAddress)
                          /\ r.session_state[c][PendingAddress] = AddressDict(m.address)

\* a turn has just staged a date over a pending one, with a confirmation in
\* the message: no call was made and the table still holds the old date
C2_Witness ==
    /\ out.context_id = "c1"
    /\ out.context_info.pending_date_change = "d2"
    /\ out.issued = <<>>
    /\ HasPending(session_state, "c1", PendingDate)
    /\ session_state["c1"][PendingDate] = "d2"
    /\ "O1" \in DOMAIN orders
    /\ orders["O1"].delivery_date = "d0"

----------------------------------------------------------------------------
(* C3 *)

\* what C3 says of the turn's result r in context c: one date call, scoped by
\* the snapshot, writing the pending date; on success the table and the
\* snapshot hold the date and the slot is empty
C3_Post(c, r) ==
    LET vo == session_state[c][VerifiedOrder]
        staged == session_state[c][PendingDate]
        calls == DateCalls(r.out.issued)
    IN  /\ Cardinality(calls) = 1
        /\ \A i \in calls :
              /\ r.out.issued[i].order_id = vo.order_id
              /\ r.out.issued[i].email = vo.email
              /\ r.out.issued[i].updates = ("delivery_date" :> staged)
              /\ r.out.issued[i].success =>
                    /\ MatchingRows(r.orders, vo.order_id, vo.email) # {}
                    /\ \A k \in MatchingRows(r.orders, vo.order_id, vo.email) :
                          r.orders[k].delivery_date = staged
                    /\ r.session_state[c][VerifiedOrder].delivery_date = staged
                    /\ ~HasPending(r.session_state, c, PendingDate)

\* the claim as stated: every confirming message without a new date
C3_Original ==
    \A c \in TurnContexts, m \in Messages, llm_ok \in BOOLEAN :
        (/\ IsVerified(session_state, c)
         /\ HasPending(session_state, c, PendingDate)
         /\ m.confirm /\ m.date = None)
        => C3_Post(c, Result(c, m, llm_ok))

\* C3 (amended): In a context with a verified order and a pending date, a
\* turn whose message carries a confirmation signal, no cancellation signal,
\* no new date and no order id and email that the store matches issues exactly
\* one store update for the date, scoped by the snapshot's order id and email;
\* when that update succeeds, after the turn the store's delivery date and the
\* snapshot's delivery date both equal the staged value and the pending date
\* slot is empty.
C3_ConfirmAppliesDate ==
    \A c \in TurnContexts, m \in Messages, llm_ok \in BOOLEAN :
        (/\ IsVerified(session_state, c)
         /\ HasPending(session_state, c, PendingDate)
         /\ m.confirm /\ m.date = None
         /\ ~m.cancel /\ ~Verifies(orders, m))
        => C3_Post(c, Result(c, m, llm_ok))

\* a confirmation has just applied the pending date: table and snapshot hold
\* it and the slot is empty
C3_Witness ==
    /\ out.context_id = "c1"
    /\ out.update_result = "date_updated"
    /\ IsVerified(session_state, "c1")
    /\ ~HasPending(session_state, "c1", PendingDate)
    /\ session_state["c1"][VerifiedOrder].delivery_date = "d2"
    /\ "O1" \in DOMAIN orders
    /\ orders["O1"].delivery_date = "d2"

----------------------------------------------------------------------------
(* C4 *)

\* a message that only confirms
ConfirmOnly ==
    [order_id |-> None, email |-> None, date |-> None, address |-> None,
     confirm |-> TRUE, cancel |-> FALSE]

\* the slot a call of _update_order took its value from
SlotOf(u) ==
    IF "delivery_date" \in DOMAIN u.updates THEN PendingDate ELSE PendingAddress

\* C4: When the store update issued by a confirmation turn returns failure,
\* the pending slot still holds the same staged value and the verified-order
\* snapshot is unchanged after the turn, so a later confirmation turn retries
\* the update with that same value.
C4_FailureKeepsPending ==
    \A c \in Callers, m \in Messages, llm_ok \in BOOLEAN :
        LET r == Result(c, m, llm_ok)
        IN  \A i \in DOMAIN r.out.issued :
                ~r.out.issued[i].success =>
                    LET u == r.out.issued[i]
                        again == process_message(r.session_state, r.orders,
                                     r.conversation_history, c, ConfirmOnly, llm_ok)
                    IN  /\ HasPending(r.session_state, c, SlotOf(u))
                        /\ r.session_state[c][SlotOf(u)] = session_state[c][SlotOf(u)]
                        /\ r.session_state[c][VerifiedOrder]
                             = session_state[c][VerifiedOrder]
                        /\ \E j \in DOMAIN again.out.issued :
                               /\ again.out.issued[j].updates = u.updates
                               /\ again.out.issued[j].order_id = u.order_id
                               /\ again.out.issued[j].email = u.email

\* a confirmation has just failed on a deleted row: the date is still pending
C4_Witness ==
    /\ out.context_id = "c1"
    /\ out.update_result = "date_failed"
    /\ Len(out.issued) = 1
    /\ ~out.issued[1].success
    /\ HasPending(session_state, "c1", PendingDate)
    /\ out.issued[1].updates = ("delivery_date" :> session_state["c1"][PendingDate])

----------------------------------------------------------------------------
(* C5 *)

----------------------------------------------------------------------------
(* C6 *)

\* C6: A turn whose message contains an order id and an email for which the
\* order store finds no matching record leaves the context's ConversationState
\* exactly as it was before the turn: no verified order is written and no
\* pending slot is added, changed or removed, whether the context was
\* unverified or already verified before the turn.
C6_NotFoundLeavesState ==
    \A c \in TurnContexts, m \in Messages, llm_ok \in BOOLEAN :
        (HasOrderInfo(m) /\ ~Verifies(orders, m))
        => Result(c, m, llm_ok).session_state = session_state

----------------------------------------------------------------------------
(* C7 *)

\* C7: In every reachable state of every context, a pending date change or
\* pending address change exists only if that context has a verified order set.
C7_PendingOnlyIfVerified ==
    \A c \in DOMAIN session_state :
        (PendingDate \in DOMAIN session_state[c]
         \/ PendingAddress \in DOMAIN session_state[c])
        => VerifiedOrder \in DOMAIN session_state[c]

\* a cancellation that carried a new date has just restaged it, next to the
\* verified order
C7_Witness ==
    /\ out.context_id = "c1"
    /\ out.context_info.cancelled
    /\ out.context_info.pending_date_change = "d1"
    /\ HasPending(session_state, "c1", PendingDate)
    /\ IsVerified(session_state, "c1")

----------------------------------------------------------------------------
(* C8 *)

\* C8: In a context with a pending change, a turn whose message carries a
\* confirmation signal together with a new date or a new address applies no
\* pending change: no order-store update is issued in that turn, and the new
\* value is only staged.
C8_ConfirmWithNewValueOnlyStages ==
    \A c \in TurnContexts, m \in Messages, llm_ok \in BOOLEAN :
        (/\ HasPending(session_state, c, PendingDate)
            \/ HasPending(session_state, c, PendingAddress)
         /\ m.confirm
         /\ m.date # None \/ m.address # None)
        => LET r == Result(c, m, llm_ok)
           IN  /\ r.out.issued = <<>>
               /\ r.orders = orders
               /\ m.date # None =>
                    /\ HasPending(r.session_state, c, PendingDate)
                    /\ r.session_state[c][PendingDate] = m.date
               /\ m.address # None =>
                    /\ HasPending(r.session_state, c, PendingAddress)
                    /\ r.session_state[c][PendingAddress] = AddressDict(m.address)

----------------------------------------------------------------------------
(* C9 *)

\* what C9 says of the turn's result r in context c: a date call and an
\* address call; when both succeed the table holds both staged values and
\* both slots are empty
C9_Post(c, r) ==
    LET vo == session_state[c][VerifiedOrder]
        date == session_state[c][PendingDate]
        address == session_state[c][PendingAddress]
        issued == r.out.issued
    IN  /\ Len(issued) = 2
        /\ issued[1].updates = ("delivery_date" :> date)
        /\ issued[2].updates = address
        /\ (issued[1].success /\ issued[2].success) =>
              /\ MatchingRows(r.orders, vo.order_id, vo.email) # {}
              /\ \A k \in MatchingRows(r.orders, vo.order_id, vo.email) :
                    /\ r.orders[k].delivery_date = date
                    /\ \A f \in AddressFields : r.orders[k][f] = address[f]
              /\ ~HasPending(r.session_state, c, PendingDate)
              /\ ~HasPending(r.session_state, c, PendingAddress)

\* the claim as stated: every confirming message without a new value
C9_Original ==
    \A c \in TurnContexts, m \in Messages, llm_ok \in BOOLEAN :
        (/\ HasPending(session_state, c, PendingDate)
         /\ HasPending(session_state, c, PendingAddress)
         /\ m.confirm /\ m.date = None /\ m.address = None)
        => C9_Post(c, Result(c, m, llm_ok))

\* C9 (amended): In a context where both a date change and an address change
\* are pending, one turn with a confirmation signal, no cancellation signal,
\* no new value and no order id and email that the store matches applies both:
\* it issues an update for the date and an update for the address, and when
\* both succeed both store fields equal the staged values and both pending
\* slots are empty after the turn.
C9_ConfirmAppliesBoth ==
    \A c \in TurnContexts, m \in Messages, llm_ok \in BOOLEAN :
        (/\ HasPending(session_state, c, PendingDate)
         /\ HasPending(session_state, c, PendingAddress)
         /\ m.confirm /\ m.date = None /\ m.address = None
         /\ ~m.cancel /\ ~Verifies(orders, m))
        => C9_Post(c, Result(c, m, llm_ok))

\* one confirmation has just applied a date and an address
C9_Witness ==
    /\ out.context_id = "c1"
    /\ Len(out.issued) = 2
    /\ out.issued[1].success /\ out.issued[2].success
    /\ ~HasPending(session_state, "c1", PendingDate)
    /\ ~HasPending(session_state, "c1", PendingAddress)
    /\ "O1" \in DOMAIN orders
    /\ orders["O1"].delivery_date = "d1"
    /\ orders["O1"].street = "s1"

----------------------------------------------------------------------------
(* C10 *)

\* the calls of kind `calls` that succeeded
Succeeded(issued, calls) == {i \in calls : issued[i].success}

\* C10: A pending slot, once filled, is emptied only by a successful apply of
\* that slot or by a cancellation turn (it may be overwritten by a newly
\* staged value); no other turn removes it, and in particular a later turn
\* that verifies an order id and email in the same context does not discard
\* the pending changes or reset the whole state record.
C10_PendingSurvives ==
    \A c \in TurnContexts, m \in Messages, llm_ok \in BOOLEAN :
        LET r == Result(c, m, llm_ok)
        IN  /\ (/\ HasPending(session_state, c, PendingDate)
                /\ ~HasPending(r.session_state, c, PendingDate))
               => \/ Succeeded(r.out.issued, DateCalls(r.out.issued)) # {}
                  \/ m.cancel
            /\ (/\ HasPending(session_state, c, PendingAddress)
                /\ ~HasPending(r.session_state, c, PendingAddress))
               => \/ Succeeded(r.out.issued, AddressCalls(r.out.issued)) # {}
                  \/ m.cancel

----------------------------------------------------------------------------
(***************************************************************************)
(* A2AHandler: the task lifecycle.                                         *)
(*                                                                         *)
(* send_message runs to its await of the agent in one step (SendMessage)   *)
(* and from the agent's answer to its return in another (ResumeSend): the  *)
(* event loop can run other calls of the handler while the agent call is   *)
(* suspended.  The agent is the collaborator behind that await: its call   *)
(* ends with a reply or with an exception, which line 93 catches.          *)
(***************************************************************************)

\* the task dicts the model creates at most (the code creates without bound)
MaxTasks == 2

TaskIds == {"t1", "t2"}
HandlerContexts == {"c1", "c2"}

\* the caller identity and client surface main.py passes on from the session
Identities == {[user_id |-> None, surface |-> None],
             [user_id |-> "u1", surface |-> "web"]}

\* a text value that is not a str (a JSON number in the "text" member)
NotAString == "<number>"

\* parts of an inbound message: a part is a JSON object with a kind and a
\* text, or a JSON value that is no object; a missing "text" is ""
TextPart(t) == [object |-> TRUE, kind |-> "text", text |-> t]
DataPart == [object |-> TRUE, kind |-> "data", text |-> ""]
NotAnObject == [object |-> FALSE, kind |-> None, text |-> None]

\* the inbound messages of the model
HandlerMessages ==
    {[role |-> "user", parts |-> ps] :
        ps \in {<<DataPart, TextPart("hello")>>,
                <<NotAnObject>>, <<TextPart(NotAString)>>}}

\* the text parts of a sequence of parts, in order
RECURSIVE TextParts(_)
TextParts(ps) ==
    IF ps = <<>> THEN <<>>
    ELSE IF Head(ps).kind = "text"
         THEN <<Head(ps).text>> \o TextParts(Tail(ps))
         ELSE TextParts(Tail(ps))

\* A2AHandler._extract_text_from_message: part.get raises on a part that is
\* no object, and " ".join raises on a text that is no str; the text is kept
\* as the sequence of the strings joined
_extract_text_from_message(message) ==
    IF \E i \in DOMAIN message.parts : ~message.parts[i].object
    THEN [raised |-> TRUE, text |-> <<>>]
    ELSE IF \E i \in DOMAIN message.parts :
                /\ message.parts[i].kind = "text"
                /\ message.parts[i].text = NotAString
         THEN [raised |-> TRUE, text |-> <<>>]
         ELSE [raised |-> FALSE, text |-> TextParts(message.parts)]

\* dict.get(k, default)
Get(d, k, default) == IF k \in DOMAIN d THEN d[k] ELSE default

\* no task: what get_task and cancel_task return for an unknown id
NoTask == 0

\* the metadata send_message adds when a user id or a surface is given: the
\* keys it holds, None for a key it does not hold; a task without metadata
\* has neither (the code never stores an empty metadata dict)
Metadata(user_id, surface) ==
    [userId |-> user_id, surface |-> surface]

\* the task dict send_message creates, in state working
NewTask(task_id, context_id, message, now, user_id, surface) ==
    [id |-> task_id, contextId |-> context_id,
     state |-> "working", error |-> None,
     createdAt |-> now, updatedAt |-> now,
     messages |-> <<message>>,
     metadata |-> Metadata(user_id, surface)]

\* the agent's reply as a message
ResponseMessage == [role |-> "agent", parts |-> <<TextPart("reply")>>]

CompleteTask_NoReply(task, now) ==
    [task EXCEPT !.state = "completed", !.error = None, !.updatedAt = now]

\* lines 88-91: the task after the agent replied
CompleteTask(task, now) ==
    [task EXCEPT !.messages = Append(@, ResponseMessage),
                 !.state = "completed", !.error = None,
                 !.updatedAt = now]

FailTask_StaysWorking(task, now) ==
    [task EXCEPT !.updatedAt = now]

\* lines 93-98: the task after the agent call raised
FailTask(task, now) ==
    [task EXCEPT !.state = "failed", !.error = "PROCESSING_ERROR",
                 !.updatedAt = now]

TerminalStates == {"completed", "failed", "canceled", "rejected"}

CancelledTask_TouchesTerminal(task, now) ==
    IF task.state \in TerminalStates THEN [task EXCEPT !.updatedAt = now]
    ELSE [task EXCEPT !.state = "canceled", !.error = None, !.updatedAt = now]

\* lines 119-125: the task after cancel_task
CancelledTask(task, now) ==
    IF task.state \in TerminalStates THEN task
    ELSE [task EXCEPT !.state = "canceled", !.error = None, !.updatedAt = now]

\* the keys of self._tasks in insertion order: a dict keeps the place of a key
\* that is assigned again, so the order is that of the first task of each id
RECURSIVE KeyOrder(_, _)
KeyOrder(objs, seen) ==
    IF objs = <<>> THEN <<>>
    ELSE IF Head(objs).id \in seen
         THEN KeyOrder(Tail(objs), seen)
         ELSE <<Head(objs).id>> \o KeyOrder(Tail(objs), seen \cup {Head(objs).id})

\* A2AHandler.get_task: the task object of the id, or none
get_task(tasks, task_id) == Get(tasks, task_id, NoTask)

\* A2AHandler.list_tasks: the task objects listed, in order
list_tasks(objs, tasks, contexts, context_id) ==
    IF context_id # None
    THEN LET task_ids == Get(contexts, context_id, <<>>)
             known == SelectSeq(task_ids, LAMBDA tid : tid \in DOMAIN tasks)
         IN  [i \in 1..Len(known) |-> tasks[known[i]]]
    ELSE LET keys == KeyOrder(objs, {})
         IN  [i \in 1..Len(keys) |-> tasks[keys[i]]]

\* send_message up to its await of the agent (lines 45-80); context_id and
\* task_id are the caller's or, for None, fresh uuids
SendMessage(message, context_id, task_id, who) ==
    /\ Len(task_objects) < MaxTasks
    /\ \E cid \in HandlerContexts, tid \in TaskIds :
          /\ IF context_id = None THEN cid \notin DOMAIN _contexts
                                  ELSE cid = context_id
          /\ IF task_id = None THEN tid \notin DOMAIN _tasks
                               ELSE tid = task_id
          /\ IF _extract_text_from_message(message).raised
             THEN /\ returned' = [op |-> "send_message", raised |-> TRUE,
                                  value |-> NoTask]
                  /\ UNCHANGED <<task_objects, _tasks, _contexts, awaiting, clock>>
             ELSE LET obj == Len(task_objects) + 1
                      task == NewTask(tid, cid, message, clock,
                                      who.user_id, who.surface)
                  IN  /\ task_objects' = Append(task_objects, task)
                      /\ _tasks' = Put(_tasks, tid, obj)
                      /\ _contexts' = Put(_contexts, cid,
                                          Append(Get(_contexts, cid, <<>>), tid))
                      /\ awaiting' = awaiting \cup {obj}
                      /\ clock' = clock + 1
                      /\ UNCHANGED returned
    /\ UNCHANGED agent_vars

\* send_message from the agent's answer to its return (lines 80-100)
ResumeSend(obj, replied) ==
    /\ obj \in awaiting
    /\ task_objects' = [task_objects EXCEPT ![obj] =
                           IF replied THEN CompleteTask(@, clock)
                                      ELSE FailTask(@, clock)]
    /\ awaiting' = awaiting \ {obj}
    /\ clock' = clock + 1
    /\ returned' = [op |-> "send_message", raised |-> FALSE, value |-> obj]
    /\ UNCHANGED <<_tasks, _contexts>>
    /\ UNCHANGED agent_vars

GetTask(task_id) ==
    /\ returned' = [op |-> "get_task", raised |-> FALSE,
                    value |-> get_task(_tasks, task_id)]
    /\ UNCHANGED <<task_objects, _tasks, _contexts, awaiting, clock>>
    /\ UNCHANGED agent_vars

ListTasks(context_id) ==
    /\ returned' = [op |-> "list_tasks", raised |-> FALSE,
                    value |-> list_tasks(task_objects, _tasks, _contexts,
                                         context_id)]
    /\ UNCHANGED <<task_objects, _tasks, _contexts, awaiting, clock>>
    /\ UNCHANGED agent_vars

\* A2AHandler.cancel_task
CancelTask(task_id) ==
    /\ LET obj == get_task(_tasks, task_id)
       IN  IF obj = NoTask
           THEN /\ returned' = [op |-> "cancel_task", raised |-> FALSE,
                                value |-> NoTask]
                /\ UNCHANGED <<task_objects, clock>>
           ELSE /\ returned' = [op |-> "cancel_task", raised |-> FALSE,
                                value |-> obj]
                /\ task_objects' = [task_objects EXCEPT ![obj] =
                                       CancelledTask(@, clock)]
                /\ clock' = IF task_objects[obj].state \in TerminalStates
                            THEN clock ELSE clock + 1
    /\ UNCHANGED <<_tasks, _contexts, awaiting>>
    /\ UNCHANGED agent_vars

\* ShippingAgent and the orders table at rest
AgentIdle ==
    /\ llm_enabled = TRUE
    /\ orders = [o \in OrderIds |-> SeedRow(o)]
    /\ session_state = <<>>
    /\ conversation_history = [c \in Contexts |-> <<>>]
    /\ out = NoOut

HandlerInit == HandlerIdle /\ AgentIdle /\ AuthIdle /\ DateIdle

\* the handler is called with the validator and the session manager at rest
HandlerNext ==
    \/ \E message \in HandlerMessages, context_id \in HandlerContexts \cup {None},
          task_id \in TaskIds \cup {None}, who \in Identities :
           /\ SendMessage(message, context_id, task_id, who)
           /\ UNCHANGED <<auth_vars, date_vars>>
    \/ \E obj \in 1..MaxTasks, replied \in BOOLEAN :
           ResumeSend(obj, replied) /\ UNCHANGED <<auth_vars, date_vars>>
    \/ \E task_id \in TaskIds :
           GetTask(task_id) /\ UNCHANGED <<auth_vars, date_vars>>
    \/ \E context_id \in HandlerContexts \cup {None} :
           ListTasks(context_id) /\ UNCHANGED <<auth_vars, date_vars>>
    \/ \E task_id \in TaskIds :
           CancelTask(task_id) /\ UNCHANGED <<auth_vars, date_vars>>

HandlerSpec == HandlerInit /\ [][HandlerNext]_vars

----------------------------------------------------------------------------
(* C11 *)

\* in a step, no task object leaves a state other than working
StateChangesFromWorking ==
    \A obj \in DOMAIN task_objects :
        task_objects'[obj].state # task_objects[obj].state
            => task_objects[obj].state = "working"

----------------------------------------------------------------------------
(* C12 *)

\* what a cancel_task step on task_id does when the task is terminal or
\* unknown: it returns the stored object (or none) and changes no task
CancelLeaves(task_id) ==
    LET obj == get_task(_tasks, task_id)
    IN  (obj = NoTask \/ task_objects[obj].state \in TerminalStates)
        => /\ returned'.value = obj
           /\ task_objects' = task_objects
           /\ _tasks' = _tasks
           /\ _contexts' = _contexts

\* C12: cancel_task on a task that is already completed, failed or canceled
\* returns the stored record and changes nothing in it: state, error
\* descriptor, transcript and updatedAt are the same as before the call;
\* cancel_task on an unknown task id returns none and changes no task.
C12_CancelTerminalIsNoOp ==
    [][\A task_id \in TaskIds : CancelTask(task_id) => CancelLeaves(task_id)]_vars

\* cancel_task has just returned a task that an earlier step completed or
\* failed
C12_Witness ==
    /\ returned.op = "cancel_task"
    /\ returned.value # NoTask
    /\ task_objects[returned.value].state \in {"completed", "failed"}

----------------------------------------------------------------------------
(* C13 *)

\* the task objects created with contextId = context_id, in creation order
CreatedIn(context_id) ==
    LET all == [i \in 1..Len(task_objects) |-> i]
    IN  SelectSeq(all, LAMBDA i : task_objects[i].contextId = context_id)

\* C13: After any sequence of send_message calls, list_tasks(c) for a context
\* id c returns exactly the tasks that were created with contextId = c, each
\* exactly once, in the order they were created; no returned task has a
\* different contextId.
C13_ListIsContextInOrder ==
    \A c \in HandlerContexts :
        list_tasks(task_objects, _tasks, _contexts, c) = CreatedIn(c)

----------------------------------------------------------------------------
(* C14 *)

\* a step in which a send_message call stores its task
StoresTask == Len(task_objects') > Len(task_objects)

\* C14: Once a task exists, no later send_message call in any context
\* replaces or changes its record (state, transcript, timestamps, error): each
\* inbound message creates a new task, and this holds also when the later call
\* supplies the taskId of the existing task.
C14_SendKeepsExistingTasks ==
    [][StoresTask =>
          \A task_id \in DOMAIN _tasks :
              task_objects'[_tasks'[task_id]] = task_objects[_tasks[task_id]]]_vars

----------------------------------------------------------------------------
(* C15 *)

\* a send_message call never ends by raising
SendNeverRaises == returned.op = "send_message" => ~returned.raised

\* the call whose agent raised returns its task, failed, with the error
AgentErrorFailsTask ==
    \A obj \in awaiting :
        ResumeSend(obj, FALSE)
            => /\ returned'.value = obj
               /\ _tasks'[task_objects'[obj].id] = obj
                    => /\ task_objects'[obj].state = "failed"
                       /\ task_objects'[obj].error # None

\* C15: Any error raised while send_message processes a message, whether
\* while extracting the text from the message parts or inside the agent call,
\* ends with the task stored in state failed with the error message captured
\* in its error descriptor, and send_message returns the task record instead
\* of raising.
C15_ErrorsFailTheTask == [](SendNeverRaises) /\ [][AgentErrorFailsTask]_vars

----------------------------------------------------------------------------
(* C16 *)

\* C16: In every reachable state of the task store, a task in state completed
\* has a transcript of exactly two messages, the inbound user message followed
\* by one agent reply, and no error descriptor; a task in state working,
\* failed or canceled has a transcript of exactly the inbound message; and a
\* failed task carries an error descriptor.
C16_TranscriptMatchesState ==
    \A task_id \in DOMAIN _tasks :
        LET task == task_objects[_tasks[task_id]]
        IN  /\ task.state = "completed" =>
                /\ Len(task.messages) = 2
                /\ task.messages[1].role = "user"
                /\ task.messages[2].role = "agent"
                /\ task.error = None
            /\ task.state \in {"working", "failed", "canceled"} =>
                /\ Len(task.messages) = 1
                /\ task.messages[1].role = "user"
            /\ task.state = "failed" => task.error # None

\* the store holds a completed task and a failed one
C16_Witness ==
    /\ "t1" \in DOMAIN _tasks /\ "t2" \in DOMAIN _tasks
    /\ task_objects[_tasks["t1"]].state = "completed"
    /\ task_objects[_tasks["t2"]].state = "failed"

----------------------------------------------------------------------------
(***************************************************************************)
(* OrderRepository on its own: find and update calls with the order id and *)
(* e-mail in any spelling, on tables whose rows differ in order id or      *)
(* e-mail by more than case.                                               *)
(***************************************************************************)

RepoRows == {"O1", "O2"}

\* the spellings callers pass
OrderIdSpellings == {"O1", "o1", " o1 ", "O2", "o2"}
EmailSpellings == {"e1@x", "E1@X", " E1@x ", "e2@x"}

\* the tables RepoSpec starts from: row O1 with its e-mail stored in lower or
\* mixed case, and with or without a row O2 whose order id is stored in upper
\* or lower case and whose e-mail is that of row O1 or another
RepoTables ==
    LET row1 == {[SeedRow("O1") EXCEPT !.email = e] : e \in {"e1@x", "E1@x"}}
        row2 == {[SeedRow("O2") EXCEPT !.order_id = "o2", !.email = "e1@x"],
                 SeedRow("O2")}
    IN  {("O1" :> r1) : r1 \in row1}
        \cup {("O1" :> r1) @@ ("O2" :> r2) : r1 \in row1, r2 \in row2}

\* the update dicts callers pass: no field, a field that is None, a date, a
\* street with a zipcode, and a zipcode that is not five digits
RepoUpdates ==
    {<<>>,
     [delivery_date |-> None],
     [delivery_date |-> "d1"],
     [street |-> "s2", zipcode |-> "z1"],
     [zipcode |-> "bad"]}

RepoInit ==
    /\ llm_enabled = TRUE
    /\ orders \in RepoTables
    /\ session_state = <<>>
    /\ conversation_history = [c \in Contexts |-> <<>>]
    /\ out = NoOut
    /\ HandlerIdle
    /\ AuthIdle
    /\ DateIdle

\* one call of OrderRepository.find_by_order_id_and_email
RepoFind(order_id, email) ==
    /\ returned' = [op |-> "find", order_id |-> order_id, email |-> email,
                    value |-> find_by_order_id_and_email(orders, order_id, email)]
    /\ UNCHANGED <<task_objects, _tasks, _contexts, awaiting, clock>>
    /\ UNCHANGED agent_vars
    /\ UNCHANGED <<auth_vars, date_vars>>

\* one call of OrderRepository.update_order with the OrderUpdate of the dict
\* (an OrderUpdate exists only for a dict that validates)
RepoUpdate(order_id, email, updates) ==
    /\ OrderUpdateValid(updates)
    /\ LET r == update_order(orders, order_id, email, to_dict(updates))
       IN  /\ orders' = r.orders
           /\ returned' = [op |-> "update_order", order_id |-> order_id,
                           email |-> email, value |-> r.success]
    /\ UNCHANGED <<task_objects, _tasks, _contexts, awaiting, clock>>
    /\ UNCHANGED <<llm_enabled, session_state, conversation_history, out>>
    /\ UNCHANGED <<auth_vars, date_vars>>

\* one call of ShippingAgent._update_order with the dict
AgentUpdate(order_id, email, updates) ==
    /\ LET r == _update_order(orders, order_id, email, updates)
       IN  /\ orders' = r.orders
           /\ returned' = [op |-> "_update_order", order_id |-> order_id,
                           email |-> email, value |-> r.success]
    /\ UNCHANGED <<task_objects, _tasks, _contexts, awaiting, clock>>
    /\ UNCHANGED <<llm_enabled, session_state, conversation_history, out>>
    /\ UNCHANGED <<auth_vars, date_vars>>

RepoNext ==
    \/ \E order_id \in OrderIdSpellings, email \in EmailSpellings :
           RepoFind(order_id, email)
    \/ \E order_id \in OrderIdSpellings, email \in EmailSpellings,
          updates \in RepoUpdates : RepoUpdate(order_id, email, updates)
    \/ \E order_id \in OrderIdSpellings, email \in EmailSpellings,
          updates \in RepoUpdates : AgentUpdate(order_id, email, updates)

RepoSpec == RepoInit /\ [][RepoNext]_vars

\* the strings that are one string up to letter case and surrounding
\* whitespace
SpellingClasses ==
    {{"O1", "o1", " O1 ", " o1 "},
     {"O2", "o2"},
     {"e1@x", "E1@X", "E1@x", " e1@x ", " E1@x ", " E1@X "},
     {"e2@x", "E2@X"}}

Variants(s) == UNION {c \in SpellingClasses : s \in c}

\* the rows whose order id and e-mail are the given ones up to case
RowsOf(tbl, order_id, email) ==
    {k \in DOMAIN tbl : /\ order_id \in Variants(tbl[k].order_id)
                        /\ email \in Variants(tbl[k].email)}

----------------------------------------------------------------------------
(* C17 *)

\* C17: find_by_order_id_and_email returns the stored record for every
\* upper/lower-case variant of that record's order id and email (surrounding
\* whitespace ignored), and returns not-found whenever the order id or the
\* email differs from every stored record by more than letter case.
C17_FindIsCaseInsensitive ==
    /\ \A k \in DOMAIN orders :
          \A order_id \in Variants(orders[k].order_id),
             email \in Variants(orders[k].email) :
              find_by_order_id_and_email(orders, order_id, email) = {orders[k]}
    /\ \A order_id \in OrderIdSpellings, email \in EmailSpellings :
          RowsOf(orders, order_id, email) = {}
              => find_by_order_id_and_email(orders, order_id, email) = {}

\* a find with a padded lower-case order id and a padded mixed-case e-mail has
\* just returned a row
C17_Witness ==
    /\ returned.op = "find"
    /\ returned.order_id = " o1 "
    /\ returned.email = " E1@x "
    /\ returned.value # {}

----------------------------------------------------------------------------
(* C18 *)

\* C18: A successful update_order changes exactly the fields present in the
\* partial update, on exactly the record matching the order id and email
\* case-insensitively; every other field of that record and every other
\* record of the store is unchanged, and a later find returns the new values.
C18_UpdateChangesGivenFields ==
    \A order_id \in OrderIdSpellings, email \in EmailSpellings,
       updates \in {u \in RepoUpdates : OrderUpdateValid(u)} :
        LET r == update_order(orders, order_id, email, to_dict(updates))
            given == {f \in DOMAIN updates : updates[f] # None}
        IN  r.success =>
              /\ DOMAIN r.orders = DOMAIN orders
              /\ RowsOf(orders, order_id, email) # {}
              /\ \A k \in DOMAIN orders :
                    IF k \in RowsOf(orders, order_id, email)
                    THEN /\ \A f \in given : r.orders[k][f] = updates[f]
                         /\ \A f \in DOMAIN orders[k] \ given :
                               r.orders[k][f] = orders[k][f]
                         /\ find_by_order_id_and_email(r.orders, order_id, email)
                              = {r.orders[k]}
                    ELSE r.orders[k] = orders[k]

\* an update of the date of row O1 has just succeeded next to a row O2 with
\* the same e-mail: row O1 has the date and its old street, row O2 its old date
C18_Witness ==
    /\ returned.op = "update_order"
    /\ returned.value = TRUE
    /\ DOMAIN orders = {"O1", "O2"}
    /\ orders["O1"].delivery_date = "d1"
    /\ orders["O1"].street = "s0"
    /\ orders["O2"].email = "e1@x"
    /\ orders["O2"].delivery_date = "d0"

----------------------------------------------------------------------------
(* C19 *)

\* C19: update_order returns success = false and leaves every record of the
\* store unchanged when the partial update has no fields or when no record
\* matches the given order id and email; a malformed update payload is
\* rejected by _update_order before any store write.
C19_RejectedUpdatesLeaveStore ==
    \A order_id \in OrderIdSpellings, email \in EmailSpellings,
       updates \in RepoUpdates :
        /\ (/\ OrderUpdateValid(updates)
            /\ \/ \A f \in DOMAIN updates : updates[f] = None
               \/ RowsOf(orders, order_id, email) = {})
           => LET r == update_order(orders, order_id, email, to_dict(updates))
              IN  ~r.success /\ r.orders = orders
        /\ ~OrderUpdateValid(updates)
           => LET r == _update_order(orders, order_id, email, updates)
              IN  ~r.success /\ r.orders = orders

\* _update_order has just refused an update of a row that exists, and the
\* table is one RepoSpec started from
C19_Witness ==
    /\ returned.op = "_update_order"
    /\ returned.value = FALSE
    /\ RowsOf(orders, returned.order_id, returned.email) # {}
    /\ orders \in RepoTables

----------------------------------------------------------------------------
(***************************************************************************)
(* The JSON-RPC endpoint of main.py in front of the handler.               *)
(***************************************************************************)

\* the error codes of handle_jsonrpc
ParseErrorCode == -32700
InvalidRequestCode == -32600
MethodNotFoundCode == -32601
HttpExceptionCode == -32000
InternalErrorCode == -32603

\* no "message" member in params (or an empty one)
NoMessage == [role |-> None, parts |-> <<>>]

Methods == {"message/send", "tasks/get", "tasks/list", "tasks/cancel"}

\* a request body: text that is no JSON, a JSON value that is no object (an
\* array), or an object with its members; params is an object or not, and
\* holds the members the method reads
Body(json, jsonrpc, method, params_object, message, contextId, taskId) ==
    [json |-> json, jsonrpc |-> jsonrpc, method |-> method,
     params_object |-> params_object, message |-> message,
     contextId |-> contextId, taskId |-> taskId]

ObjectBody(jsonrpc, method, params_object, message, contextId, taskId) ==
    Body("object", jsonrpc, method, params_object, message, contextId, taskId)

RpcBodies ==
    {Body("unparseable", None, None, TRUE, NoMessage, None, None),
     Body("array", None, None, TRUE, NoMessage, None, None)}
    \cup {ObjectBody(v, m, TRUE, NoMessage, None, None) :
            v \in {"1.0", None}, m \in {"tasks/list", None}}
    \cup {ObjectBody("2.0", m, TRUE, NoMessage, None, None) :
            m \in {None, "invalid/method"}}
    \cup {ObjectBody("2.0", m, FALSE, NoMessage, None, None) : m \in Methods}
    \cup {ObjectBody("2.0", "message/send", TRUE, msg, c, t) :
            msg \in HandlerMessages \cup {NoMessage},
            c \in HandlerContexts \cup {None}, t \in TaskIds \cup {None}}
    \cup {ObjectBody("2.0", m, TRUE, NoMessage, None, t) :
            m \in {"tasks/get", "tasks/cancel"}, t \in TaskIds \cup {None}}
    \cup {ObjectBody("2.0", "tasks/list", TRUE, NoMessage, c, None) :
            c \in HandlerContexts \cup {None}}

\* the sessions require_ims_auth hands to the endpoint
Sessions ==
    {[context_id |-> c, user_id |-> "u1", surface |-> "web"] :
        c \in HandlerContexts}

\* a response of the endpoint: a JSON-RPC error body with a code, or the
\* transport's own error for an exception that leaves handle_jsonrpc
JsonRpcError(code) ==
    [op |-> "handle_jsonrpc", status_code |-> 200, error |-> TRUE, code |-> code]

TransportError ==
    [op |-> "handle_jsonrpc", status_code |-> 500, error |-> TRUE, code |-> 0]

\* no error response: the request is answered with the handler's result
Dispatched ==
    [op |-> "handle_jsonrpc", status_code |-> 200, error |-> FALSE, code |-> 0]

\* the error response of the _handle_* function of the method, if it raises
HandlerError(body, tasks) ==
    IF ~body.params_object THEN JsonRpcError(InternalErrorCode)
    ELSE CASE body.method = "message/send" ->
                IF body.message = NoMessage THEN JsonRpcError(HttpExceptionCode)
                ELSE IF _extract_text_from_message(body.message).raised
                     THEN JsonRpcError(InternalErrorCode)
                     ELSE Dispatched
           [] body.method \in {"tasks/get", "tasks/cancel"} ->
                IF body.taskId = None THEN JsonRpcError(HttpExceptionCode)
                ELSE IF get_task(tasks, body.taskId) = NoTask
                     THEN JsonRpcError(HttpExceptionCode)
                     ELSE Dispatched
           [] OTHER -> Dispatched

\* handle_jsonrpc: the error response to the body, or Dispatched
handle_jsonrpc(body, tasks) ==
    IF body.json = "unparseable" THEN JsonRpcError(ParseErrorCode)
    ELSE IF body.json # "object" THEN TransportError
    ELSE IF body.jsonrpc # "2.0" THEN JsonRpcError(InvalidRequestCode)
    ELSE IF body.method = None THEN JsonRpcError(InvalidRequestCode)
    ELSE IF body.method \notin Methods THEN JsonRpcError(MethodNotFoundCode)
    ELSE HandlerError(body, tasks)

\* one request to POST /a2a: answered with an error, or passed on to the
\* handler, whose call returns the result
HandleJsonRpc(body, session) ==
    LET response == handle_jsonrpc(body, _tasks)
    IN  IF response # Dispatched
        THEN /\ returned' = response
             /\ UNCHANGED <<task_objects, _tasks, _contexts, awaiting, clock>>
             /\ UNCHANGED agent_vars
        ELSE CASE body.method = "message/send" ->
                    SendMessage(body.message,
                                IF body.contextId # None THEN body.contextId
                                ELSE session.context_id,
                                body.taskId,
                                [user_id |-> session.user_id,
                                 surface |-> session.surface])
               [] body.method = "tasks/get" -> GetTask(body.taskId)
               [] body.method = "tasks/list" -> ListTasks(body.contextId)
               [] body.method = "tasks/cancel" -> CancelTask(body.taskId)

RpcNext ==
    \/ \E body \in RpcBodies, session \in Sessions :
           HandleJsonRpc(body, session) /\ UNCHANGED <<auth_vars, date_vars>>
    \/ \E obj \in 1..MaxTasks, replied \in BOOLEAN :
           ResumeSend(obj, replied) /\ UNCHANGED <<auth_vars, date_vars>>

RpcSpec == HandlerInit /\ [][RpcNext]_vars

----------------------------------------------------------------------------
(* C20 *)

\* the four kinds of error of the claim, as sets of request bodies
NotJsonRpc2 ==
    {b \in RpcBodies : b.json = "array" \/ (b.json = "object" /\ b.jsonrpc # "2.0")}

NoMethod ==
    {b \in RpcBodies : b.json = "object" /\ b.jsonrpc = "2.0" /\ b.method = None}

UnknownMethod ==
    {b \in RpcBodies : /\ b.json = "object" /\ b.jsonrpc = "2.0"
                       /\ b.method # None /\ b.method \notin Methods}

RaisesInternalError ==
    {b \in RpcBodies : /\ b.json = "object" /\ b.jsonrpc = "2.0"
                       /\ b.method \in Methods
                       /\ \/ ~b.params_object
                          \/ /\ b.method = "message/send"
                             /\ b.message # NoMessage
                             /\ _extract_text_from_message(b.message).raised}

\* the codes the endpoint answers the bodies of a kind with
CodesOf(kind) == {handle_jsonrpc(b, _tasks).code : b \in kind}

\* C20: handle_jsonrpc answers a request that is not JSON-RPC 2.0, a request
\* with no method, a request naming an unknown method, and a request whose
\* handling raises an internal error with four pairwise distinct numeric error
\* codes, always the same code for the same kind of error (the tests fix
\* -32600 for a missing jsonrpc version and -32601 for an unknown method), and
\* always in a JSON-RPC error body rather than a transport error.
C20_FourDistinctErrorCodes ==
    LET kinds == {NotJsonRpc2, NoMethod, UnknownMethod, RaisesInternalError}
    IN  /\ \A kind \in kinds :
              /\ Cardinality(CodesOf(kind)) = 1
              /\ \A b \in kind :
                    /\ handle_jsonrpc(b, _tasks).error
                    /\ handle_jsonrpc(b, _tasks).status_code = 200
        /\ \A k1, k2 \in kinds : k1 # k2 => CodesOf(k1) \cap CodesOf(k2) = {}
        /\ \A b \in RpcBodies :
              /\ (b.json = "object" /\ b.jsonrpc = None)
                    => handle_jsonrpc(b, _tasks).code = InvalidRequestCode
              /\ b \in UnknownMethod
                    => handle_jsonrpc(b, _tasks).code = MethodNotFoundCode

----------------------------------------------------------------------------
(* IMSTokenValidator *)

\* the largest time the clock of the validator and of the sessions reaches
MaxTime == 3

\* the calls of the IMS userinfo endpoint that are counted
MaxImsCalls == 2

\* settings.ims_validation_cache_ttl (86400 seconds), in the time unit of
\* the model
_cache_ttl == 2

\* the expiry of a userinfo response with neither expires_in nor exp: one
\* hour, less than the cache TTL
DefaultExpiresIn == 1

Tokens == {"tok1", "tok2"}

\* _hash_token: the SHA-256 digest of the token, different for different
\* tokens
_hash_token(token) ==
    CASE token = "tok1" -> "sha256(tok1)"
      [] token = "tok2" -> "sha256(tok2)"
      [] OTHER -> "sha256(other)"

\* the user a token was issued to
UserOf(token) == IF token = "tok1" THEN "u1" ELSE "u2"

UserIds == {"u1", "u2"}

IMSUserInfo(user_id, expires_at) == [user_id |-> user_id, expires_at |-> expires_at]

\* no user info: what a call that raises, or a miss of the cache, yields
NoUserInfo == IMSUserInfo(None, 0)

\* what the userinfo endpoint does with one request: it cannot be reached,
\* or it answers with a status code and, for 200, a body that is JSON or not,
\* names the user or not, and gives the expiry as expires_in, as exp, or not
\* at all
ImsAnswer(status, json, sub, expiry, value) ==
    [status |-> status, json |-> json, sub |-> sub, expiry |-> expiry,
     value |-> value]

ImsAccepts ==
    {ImsAnswer(200, TRUE, TRUE, "expires_in", 3),
     ImsAnswer(200, TRUE, TRUE, "exp", 0),
     ImsAnswer(200, TRUE, TRUE, "default", 0)}

ImsRejects ==
    {ImsAnswer(0, FALSE, FALSE, "default", 0),
     ImsAnswer(401, FALSE, FALSE, "default", 0),
     ImsAnswer(403, FALSE, FALSE, "default", 0),
     ImsAnswer(500, FALSE, FALSE, "default", 0),
     ImsAnswer(200, TRUE, FALSE, "default", 0)}

ImsMalformed == {ImsAnswer(200, FALSE, FALSE, "default", 0)}

ImsAnswers == ImsAccepts \cup ImsRejects \cup ImsMalformed

\* _parse_userinfo_response
_parse_userinfo_response(token, answer, t) ==
    IF ~answer.sub THEN [raised |-> "IMSValidationError", user_info |-> NoUserInfo]
    ELSE [raised |-> None,
          user_info |->
              IMSUserInfo(UserOf(token),
                          CASE answer.expiry = "expires_in" -> t + answer.value
                            [] answer.expiry = "exp" -> answer.value
                            [] OTHER -> t + DefaultExpiresIn)]

\* _call_ims_userinfo: IMSValidationError when the endpoint cannot be reached
\* (status 0 here) or answers with another status than 200; response.json()
\* raises its own error for a body that is no JSON
_call_ims_userinfo(token, answer, t) ==
    IF answer.status # 200 THEN [raised |-> "IMSValidationError", user_info |-> NoUserInfo]
    ELSE IF ~answer.json THEN [raised |-> "JSONDecodeError", user_info |-> NoUserInfo]
    ELSE _parse_userinfo_response(token, answer, t)

\* _get_from_cache: the cached user info, or None after dropping an entry
\* that is older than the TTL or whose token has expired
_get_from_cache_IgnoresExpiry(cache, cache_key, t) ==
    IF cache_key \notin DOMAIN cache THEN [value |-> NoUserInfo, cache |-> cache]
    ELSE IF t - cache[cache_key].cached_at > _cache_ttl
         THEN [value |-> NoUserInfo, cache |-> Pop(cache, cache_key)]
    ELSE [value |-> cache[cache_key].user_info, cache |-> cache]

_get_from_cache(cache, cache_key, t) ==
    IF cache_key \notin DOMAIN cache THEN [value |-> NoUserInfo, cache |-> cache]
    ELSE IF t - cache[cache_key].cached_at > _cache_ttl
         THEN [value |-> NoUserInfo, cache |-> Pop(cache, cache_key)]
    ELSE IF cache[cache_key].user_info.expires_at < t
         THEN [value |-> NoUserInfo, cache |-> Pop(cache, cache_key)]
    ELSE [value |-> cache[cache_key].user_info, cache |-> cache]

\* _add_to_cache
_add_to_cache(cache, cache_key, user_info, t) ==
    Put(cache, cache_key, [user_info |-> user_info, cached_at |-> t])

\* validate_token: what it returns or raises, the cache it leaves, and
\* whether it called the userinfo endpoint
validate_token_NoCache(cache, token, answer, t) ==
    LET called == _call_ims_userinfo(token, answer, t)
    IN  IF called.raised # None
        THEN [raised |-> called.raised, user_info |-> NoUserInfo, cache |-> cache,
              called_ims |-> TRUE]
        ELSE [raised |-> None, user_info |-> called.user_info,
              cache |-> _add_to_cache(cache, _hash_token(token), called.user_info, t),
              called_ims |-> TRUE]

validate_token(cache, token, answer, t) ==
    LET cache_key == _hash_token(token)
        cached == _get_from_cache(cache, cache_key, t)
    IN  IF cached.value # NoUserInfo
        THEN [raised |-> None, user_info |-> cached.value, cache |-> cached.cache,
              called_ims |-> FALSE]
        ELSE LET called == _call_ims_userinfo(token, answer, t)
             IN  IF called.raised # None
                 THEN [raised |-> called.raised, user_info |-> NoUserInfo,
                       cache |-> cached.cache, called_ims |-> TRUE]
                 ELSE [raised |-> None, user_info |-> called.user_info,
                       cache |-> _add_to_cache(cached.cache, cache_key,
                                               called.user_info, t),
                       called_ims |-> TRUE]

\* time passes
Tick ==
    /\ time < MaxTime
    /\ time' = time + 1
    /\ UNCHANGED <<_cache, _sessions, _user_sessions, ims_calls>>
    /\ UNCHANGED <<agent_vars, handler_vars, date_vars>>

\* one call of validate_token, with what the userinfo endpoint would answer
ValidateToken(token, answer) ==
    LET r == validate_token(_cache, token, answer, time)
    IN  /\ r.called_ims => ims_calls < MaxImsCalls
        /\ _cache' = r.cache
        /\ ims_calls' = IF r.called_ims THEN ims_calls + 1 ELSE ims_calls
        /\ returned' = [op |-> "validate_token", token |-> token,
                        raised |-> r.raised, user_info |-> r.user_info,
                        called_ims |-> r.called_ims, at |-> time]
        /\ UNCHANGED <<_sessions, _user_sessions, time>>
        /\ UNCHANGED <<task_objects, _tasks, _contexts, awaiting, clock>>
        /\ UNCHANGED <<agent_vars, date_vars>>

\* one call of clear_cache
ClearCache ==
    /\ _cache' = <<>>
    /\ returned' = [op |-> "clear_cache"]
    /\ UNCHANGED <<_sessions, _user_sessions, ims_calls, time>>
    /\ UNCHANGED <<task_objects, _tasks, _contexts, awaiting, clock>>
    /\ UNCHANGED <<agent_vars, date_vars>>

ValidatorInit == HandlerIdle /\ AgentIdle /\ AuthIdle /\ DateIdle

ValidatorNext ==
    \/ Tick
    \/ \E token \in Tokens, answer \in ImsAnswers : ValidateToken(token, answer)
    \/ ClearCache

ValidatorSpec == ValidatorInit /\ [][ValidatorNext]_vars

----------------------------------------------------------------------------
(* C22 *)

\* a successful validation of the token is cached, within the cache TTL and
\* not past the expiry of the token
CachedAndFresh(token) ==
    /\ _hash_token(token) \in DOMAIN _cache
    /\ time - _cache[_hash_token(token)].cached_at <= _cache_ttl
    /\ _cache[_hash_token(token)].user_info.expires_at >= time

\* the call before this one validated the same token at the same time by
\* asking the userinfo endpoint, which accepted it, and the token has not
\* expired
JustValidated(token) ==
    /\ returned.op = "validate_token"
    /\ returned.token = token
    /\ returned.raised = None
    /\ returned.called_ims
    /\ returned.at = time
    /\ returned.user_info.expires_at >= time

\* C22: validate_token for a token whose earlier successful validation is
\* cached, within the cache TTL and not past the token's expiry returns the
\* cached user info and does not call the userinfo endpoint; of two
\* validations of the same valid token, the second right after the first,
\* only the first calls the endpoint, and it calls it once.
C22_CachedTokenSkipsIms ==
    [][\A token \in Tokens, answer \in ImsAnswers :
          ValidateToken(token, answer) =>
              /\ CachedAndFresh(token) =>
                    /\ returned'.raised = None
                    /\ returned'.user_info = _cache[_hash_token(token)].user_info
                    /\ ~returned'.called_ims
                    /\ ims_calls' = ims_calls
                    /\ _cache' = _cache
              /\ returned'.called_ims => ims_calls' = ims_calls + 1
              /\ JustValidated(token) =>
                    /\ ims_calls' = ims_calls
                    /\ returned'.user_info = returned.user_info]_vars

\* a validation answered from the cache, some time after the one that asked
\* the userinfo endpoint
C22_Witness ==
    /\ returned.op = "validate_token"
    /\ returned.raised = None
    /\ ~returned.called_ims
    /\ ims_calls = 1
    /\ returned.at > _cache[_hash_token(returned.token)].cached_at

----------------------------------------------------------------------------
(* SessionManager *)

\* the context ids uuid4 generates and callers pass: the context ids the
\* handler is called with
Uuids == HandlerContexts

Surfaces == {"web"}

\* the user infos a caller passes: a user and the expiry of the token
UserInfos ==
    {IMSUserInfo(u, e) : u \in UserIds, e \in {1, MaxTime + 1}}

IMSSession(context_id, user_info, surface, created_at) ==
    [context_id |-> context_id, user_info |-> user_info, surface |-> surface,
     created_at |-> created_at]

\* no session: Python's None where a session is expected
NoSession == IMSSession(None, NoUserInfo, None, 0)

\* IMSSession.is_expired
is_expired(session, t) == t > session.user_info.expires_at

\* list.remove: without the first occurrence of x
RECURSIVE ListRemove(_, _)
ListRemove(list, x) ==
    IF list = <<>> THEN <<>>
    ELSE IF Head(list) = x THEN Tail(list)
    ELSE <<Head(list)>> \o ListRemove(Tail(list), x)

InList(list, x) == \E i \in 1..Len(list) : list[i] = x

\* a truthy context_id: neither None nor the empty string
Truthy(context_id) == context_id # None /\ context_id # ""

\* create_session: the session it returns, whether it constructed one, and
\* the dicts it leaves; uuid is what uuid4 returns if it is called
create_session(sessions, user_sessions, user_info, surface, context_id, uuid, t) ==
    IF /\ Truthy(context_id)
       /\ context_id \in DOMAIN sessions
       /\ sessions[context_id].user_info.user_id = user_info.user_id
       /\ ~is_expired(sessions[context_id], t)
    THEN LET existing == [sessions[context_id] EXCEPT !.user_info = user_info]
         IN  [session |-> existing, constructed |-> FALSE,
              sessions |-> Put(sessions, context_id, existing),
              user_sessions |-> user_sessions]
    ELSE LET cid == IF Truthy(context_id) THEN context_id ELSE uuid
             session == IMSSession(cid, user_info, surface, t)
             uid == user_info.user_id
             list == IF uid \in DOMAIN user_sessions THEN user_sessions[uid]
                     ELSE <<>>
         IN  [session |-> session, constructed |-> TRUE,
              sessions |-> Put(sessions, cid, session),
              user_sessions |->
                  Put(user_sessions, uid,
                      IF InList(list, cid) THEN list ELSE Append(list, cid))]

\* _remove_session
_remove_session(sessions, user_sessions, context_id) ==
    IF context_id \notin DOMAIN sessions
    THEN [sessions |-> sessions, user_sessions |-> user_sessions]
    ELSE LET uid == sessions[context_id].user_info.user_id
         IN  [sessions |-> Pop(sessions, context_id),
              user_sessions |->
                  IF uid \in DOMAIN user_sessions
                  THEN [user_sessions EXCEPT ![uid] = ListRemove(@, context_id)]
                  ELSE user_sessions]

\* get_session
get_session_KeepsExpired(sessions, user_sessions, context_id, t) ==
    IF context_id \in DOMAIN sessions /\ is_expired(sessions[context_id], t)
    THEN [session |-> NoSession, sessions |-> sessions,
          user_sessions |-> user_sessions]
    ELSE [session |-> IF context_id \in DOMAIN sessions THEN sessions[context_id]
                      ELSE NoSession,
          sessions |-> sessions, user_sessions |-> user_sessions]

get_session(sessions, user_sessions, context_id, t) ==
    IF context_id \in DOMAIN sessions /\ is_expired(sessions[context_id], t)
    THEN LET r == _remove_session(sessions, user_sessions, context_id)
         IN  [session |-> NoSession, sessions |-> r.sessions,
              user_sessions |-> r.user_sessions]
    ELSE [session |-> IF context_id \in DOMAIN sessions THEN sessions[context_id]
                      ELSE NoSession,
          sessions |-> sessions, user_sessions |-> user_sessions]

\* the loop of get_user_sessions from position i of the list of the user:
\* the list is the one _remove_session shortens, so the position that comes
\* next is read from the list as get_session left it
RECURSIVE UserSessionsFrom(_, _, _, _, _, _)
UserSessionsFrom(sessions, user_sessions, user_id, i, found, t) ==
    IF user_id \notin DOMAIN user_sessions \/ i > Len(user_sessions[user_id])
    THEN [value |-> found, sessions |-> sessions, user_sessions |-> user_sessions]
    ELSE LET r == get_session(sessions, user_sessions, user_sessions[user_id][i], t)
         IN  UserSessionsFrom(r.sessions, r.user_sessions, user_id, i + 1,
                              IF r.session # NoSession
                              THEN Append(found, r.session) ELSE found, t)

\* get_user_sessions
get_user_sessions(sessions, user_sessions, user_id, t) ==
    UserSessionsFrom(sessions, user_sessions, user_id, 1, <<>>, t)

\* cleanup_expired: the expired sessions, removed one after the other
RECURSIVE RemoveAll(_, _, _)
RemoveAll(sessions, user_sessions, expired) ==
    IF expired = {} THEN [sessions |-> sessions, user_sessions |-> user_sessions]
    ELSE LET ctx_id == CHOOSE c \in expired : TRUE
             r == _remove_session(sessions, user_sessions, ctx_id)
         IN  RemoveAll(r.sessions, r.user_sessions, expired \ {ctx_id})

cleanup_expired(sessions, user_sessions, t) ==
    LET expired == {c \in DOMAIN sessions : is_expired(sessions[c], t)}
        r == RemoveAll(sessions, user_sessions, expired)
    IN  [value |-> Cardinality(expired), sessions |-> r.sessions,
         user_sessions |-> r.user_sessions]

\* what uuid4 can return: an id no session and no list holds
Unused(uuid) ==
    /\ uuid \notin DOMAIN _sessions
    /\ \A u \in DOMAIN _user_sessions : ~InList(_user_sessions[u], uuid)

\* one call of create_session
CreateSession(user_info, surface, context_id, uuid) ==
    /\ Truthy(context_id) \/ Unused(uuid)
    /\ LET r == create_session(_sessions, _user_sessions, user_info, surface,
                               context_id, uuid, time)
       IN  /\ _sessions' = r.sessions
           /\ _user_sessions' = r.user_sessions
           /\ returned' = [op |-> "create_session", user_info |-> user_info,
                           surface |-> surface, context_id |-> context_id,
                           session |-> r.session, constructed |-> r.constructed]
    /\ UNCHANGED <<_cache, ims_calls, time>>
    /\ UNCHANGED <<task_objects, _tasks, _contexts, awaiting, clock>>
    /\ UNCHANGED <<agent_vars, date_vars>>

\* one call of get_session
GetSession(context_id) ==
    /\ LET r == get_session(_sessions, _user_sessions, context_id, time)
       IN  /\ _sessions' = r.sessions
           /\ _user_sessions' = r.user_sessions
           /\ returned' = [op |-> "get_session", context_id |-> context_id,
                           session |-> r.session]
    /\ UNCHANGED <<_cache, ims_calls, time>>
    /\ UNCHANGED <<task_objects, _tasks, _contexts, awaiting, clock>>
    /\ UNCHANGED <<agent_vars, date_vars>>

\* one call of get_user_sessions
GetUserSessions(user_id) ==
    /\ LET r == get_user_sessions(_sessions, _user_sessions, user_id, time)
       IN  /\ _sessions' = r.sessions
           /\ _user_sessions' = r.user_sessions
           /\ returned' = [op |-> "get_user_sessions", user_id |-> user_id,
                           value |-> r.value]
    /\ UNCHANGED <<_cache, ims_calls, time>>
    /\ UNCHANGED <<task_objects, _tasks, _contexts, awaiting, clock>>
    /\ UNCHANGED <<agent_vars, date_vars>>

\* one call of cleanup_expired
CleanupExpired ==
    /\ LET r == cleanup_expired(_sessions, _user_sessions, time)
       IN  /\ _sessions' = r.sessions
           /\ _user_sessions' = r.user_sessions
           /\ returned' = [op |-> "cleanup_expired", value |-> r.value]
    /\ UNCHANGED <<_cache, ims_calls, time>>
    /\ UNCHANGED <<task_objects, _tasks, _contexts, awaiting, clock>>
    /\ UNCHANGED <<agent_vars, date_vars>>

SessionInit == HandlerIdle /\ AgentIdle /\ AuthIdle /\ DateIdle

SessionNext ==
    \/ Tick
    \/ \E user_info \in UserInfos, surface \in Surfaces, context_id \in Uuids :
           CreateSession(user_info, surface, context_id, None)
    \/ \E user_info \in UserInfos, surface \in Surfaces, uuid \in Uuids :
           CreateSession(user_info, surface, None, uuid)
    \/ \E context_id \in Uuids : GetSession(context_id)
    \/ \E user_id \in UserIds : GetUserSessions(user_id)
    \/ CleanupExpired

SessionSpec == SessionInit /\ [][SessionNext]_vars

----------------------------------------------------------------------------
(* C23 *)

\* C23: get_session never returns an expired session; called for an expired
\* session it returns None and removes the session from the session store
\* and from the list of context ids of the session's user.
C23_ExpiredSessionRemoved ==
    [][\A context_id \in Uuids :
          GetSession(context_id) =>
              /\ returned'.session # NoSession
                    => ~is_expired(returned'.session, time)
              /\ (context_id \in DOMAIN _sessions
                  /\ is_expired(_sessions[context_id], time)) =>
                    /\ returned'.session = NoSession
                    /\ context_id \notin DOMAIN _sessions'
                    /\ LET uid == _sessions[context_id].user_info.user_id
                       IN  uid \in DOMAIN _user_sessions'
                              => ~InList(_user_sessions'[uid], context_id)]_vars

\* get_session has just removed an expired session whose user has another
\* session left
C23_Witness ==
    /\ returned.op = "get_session"
    /\ returned.session = NoSession
    /\ returned.context_id \notin DOMAIN _sessions
    /\ \E u \in DOMAIN _user_sessions :
          /\ Len(_user_sessions[u]) = 1
          /\ ~InList(_user_sessions[u], returned.context_id)
          /\ _user_sessions[u][1] \in DOMAIN _sessions
    /\ time > 0

----------------------------------------------------------------------------
(* C24 *)

\* the context id names a session of the user of user_info that has not
\* expired
ExistingSessionOf(user_info, context_id) ==
    /\ context_id \in DOMAIN _sessions
    /\ _sessions[context_id].user_info.user_id = user_info.user_id
    /\ ~is_expired(_sessions[context_id], time)

\* the call returned the existing session with its user_info replaced and
\* constructed none
ReturnsExisting(user_info, context_id) ==
    /\ returned'.session = [_sessions[context_id] EXCEPT !.user_info = user_info]
    /\ returned'.session.context_id = context_id
    /\ ~returned'.constructed
    /\ _sessions' = [_sessions EXCEPT ![context_id].user_info = user_info]
    /\ _user_sessions' = _user_sessions

\* the same call made again right after it returns the same session and
\* leaves the sessions and the lists of the users as they are
SecondCallChangesNothing(user_info, surface, context_id) ==
    LET again == create_session(_sessions', _user_sessions', user_info, surface,
                                context_id, None, time)
    IN  /\ again.session = returned'.session
        /\ ~again.constructed
        /\ again.sessions = _sessions'
        /\ again.user_sessions = _user_sessions'

\* C24: create_session called with the context_id of an existing, unexpired
\* session of the same user returns that session under the same context id,
\* with its user_info refreshed, and creates no new session; calling it again
\* with the same arguments changes nothing further.
C24_ReuseIsIdempotent ==
    [][\A user_info \in UserInfos, surface \in Surfaces, context_id \in Uuids :
          (CreateSession(user_info, surface, context_id, None)
           /\ ExistingSessionOf(user_info, context_id)) =>
              /\ ReturnsExisting(user_info, context_id)
              /\ SecondCallChangesNothing(user_info, surface, context_id)]_vars

----------------------------------------------------------------------------
(* POST /a2a behind require_ims_auth *)

\* the Authorization header of a request: absent, of another scheme, or a
\* bearer token (the scheme is matched in either case)
Authorizations == {None, "Basic abc", "bearer tok1"}

\* _extract_bearer_token
_extract_bearer_token(authorization) ==
    CASE authorization = "Bearer tok1" -> "tok1"
      [] authorization = "bearer tok1" -> "tok1"
      [] OTHER -> None

\* the X-Adobe-Surface header of a request, which has no User-Agent and no
\* Referer header
SurfaceHeaders == {"Web"}

\* detect_surface
detect_surface(surface_header) ==
    IF surface_header = None THEN "unknown" ELSE Lower(surface_header)

\* the answers of the userinfo endpoint to the requests of the endpoint
A2AImsAnswers ==
    {ImsAnswer(200, TRUE, TRUE, "expires_in", 3),
     ImsAnswer(0, FALSE, FALSE, "default", 0),
     ImsAnswer(401, FALSE, FALSE, "default", 0),
     ImsAnswer(200, FALSE, FALSE, "default", 0)}

\* the bodies of the requests
A2ABodies ==
    {ObjectBody("2.0", "tasks/list", TRUE, NoMessage, None, None),
     ObjectBody("2.0", "message/send", TRUE,
                [role |-> "user", parts |-> <<DataPart, TextPart("hello")>>],
                None, None),
     ObjectBody("2.0", "tasks/get", TRUE, NoMessage, None, "t1"),
     ObjectBody("2.0", "tasks/cancel", TRUE, NoMessage, None, "t1")}

\* require_ims_auth: the session it returns or the exception it raises, the
\* cache and the sessions it leaves, and whether the userinfo endpoint was
\* called
require_ims_auth_NoValidation(cache, sessions, user_sessions, authorization, answer, surface_header, uuid, t) ==
    LET token == _extract_bearer_token(authorization)
    IN  IF token = None
        THEN [raised |-> "AuthenticationError",
              message |-> "Missing Authorization header",
              session |-> NoSession, cache |-> cache, sessions |-> sessions,
              user_sessions |-> user_sessions, called_ims |-> FALSE]
        ELSE LET created == create_session(sessions, user_sessions,
                                           IMSUserInfo(UserOf(token),
                                                       t + DefaultExpiresIn),
                                           detect_surface(surface_header),
                                           None, uuid, t)
             IN  [raised |-> None, message |-> None,
                  session |-> created.session, cache |-> cache,
                  sessions |-> created.sessions,
                  user_sessions |-> created.user_sessions,
                  called_ims |-> FALSE]

require_ims_auth(cache, sessions, user_sessions, authorization, answer, surface_header, uuid, t) ==
    LET token == _extract_bearer_token(authorization)
    IN  IF token = None
        THEN [raised |-> "AuthenticationError",
              message |-> "Missing Authorization header",
              session |-> NoSession, cache |-> cache, sessions |-> sessions,
              user_sessions |-> user_sessions, called_ims |-> FALSE]
        ELSE LET v == validate_token(cache, token, answer, t)
             IN  IF v.raised = "IMSValidationError"
                 THEN [raised |-> "AuthenticationError",
                       message |-> "IMSValidationError",
                       session |-> NoSession, cache |-> v.cache,
                       sessions |-> sessions, user_sessions |-> user_sessions,
                       called_ims |-> v.called_ims]
                 ELSE IF v.raised # None
                 THEN [raised |-> v.raised, message |-> v.raised,
                       session |-> NoSession, cache |-> v.cache,
                       sessions |-> sessions, user_sessions |-> user_sessions,
                       called_ims |-> v.called_ims]
                 ELSE LET created == create_session(sessions, user_sessions,
                                                    v.user_info,
                                                    detect_surface(surface_header),
                                                    None, uuid, t)
                      IN  [raised |-> None, message |-> None,
                           session |-> created.session, cache |-> v.cache,
                           sessions |-> created.sessions,
                           user_sessions |-> created.user_sessions,
                           called_ims |-> v.called_ims]

\* authentication_error_handler: the 401 response with the message of the
\* exception
Unauthorized(message) ==
    [op |-> "handle_jsonrpc", status_code |-> 401, error |-> TRUE, code |-> 0,
     message |-> message]

\* one request to POST /a2a: the dependency require_ims_auth runs first, and
\* handle_jsonrpc runs with its session only if it raised nothing
A2ARequest(authorization, answer, surface_header, body, uuid) ==
    LET auth == require_ims_auth(_cache, _sessions, _user_sessions,
                                 authorization, answer, surface_header, uuid, time)
    IN  /\ auth.called_ims => ims_calls < MaxImsCalls
        /\ auth.raised = None => Unused(uuid)
        /\ _cache' = auth.cache
        /\ _sessions' = auth.sessions
        /\ _user_sessions' = auth.user_sessions
        /\ ims_calls' = IF auth.called_ims THEN ims_calls + 1 ELSE ims_calls
        /\ UNCHANGED <<time, today>>
        /\ IF auth.raised = "AuthenticationError"
           THEN /\ returned' = Unauthorized(auth.message)
                /\ UNCHANGED <<task_objects, _tasks, _contexts, awaiting, clock>>
                /\ UNCHANGED agent_vars
           ELSE IF auth.raised # None
           THEN /\ returned' = TransportError
                /\ UNCHANGED <<task_objects, _tasks, _contexts, awaiting, clock>>
                /\ UNCHANGED agent_vars
           ELSE HandleJsonRpc(body, [context_id |-> auth.session.context_id,
                                     user_id |-> auth.session.user_info.user_id,
                                     surface |-> auth.session.surface])

\* the requests: one with no bearer token reaches neither the userinfo
\* endpoint nor uuid4, so that the answer of the one and the value of the
\* other are of no account
A2ARequests ==
    {[authorization |-> a, answer |-> CHOOSE x \in A2AImsAnswers : TRUE,
      surface_header |-> h, body |-> b, uuid |-> CHOOSE u \in Uuids : TRUE] :
        a \in {x \in Authorizations : _extract_bearer_token(x) = None},
        h \in SurfaceHeaders, b \in A2ABodies}
    \cup {[authorization |-> a, answer |-> i, surface_header |-> h, body |-> b,
           uuid |-> u] :
            a \in {x \in Authorizations : _extract_bearer_token(x) # None},
            i \in A2AImsAnswers, h \in SurfaceHeaders, b \in A2ABodies,
            u \in Uuids}

A2AInit == HandlerIdle /\ AgentIdle /\ AuthIdle /\ DateIdle

A2ANext ==
    \/ Tick
    \/ \E request \in A2ARequests :
           A2ARequest(request.authorization, request.answer,
                      request.surface_header, request.body, request.uuid)
    \/ \E obj \in 1..MaxTasks, replied \in BOOLEAN :
           ResumeSend(obj, replied) /\ UNCHANGED <<auth_vars, date_vars>>

A2ASpec == A2AInit /\ [][A2ANext]_vars

----------------------------------------------------------------------------
(* C21 *)

\* the request carries no bearer token, or one that validate_token rejects
NotAuthenticated(authorization, answer) ==
    \/ _extract_bearer_token(authorization) = None
    \/ validate_token(_cache, _extract_bearer_token(authorization), answer,
                      time).raised = "IMSValidationError"

\* C21: a request to /a2a with no Authorization bearer token, or with a token
\* that IMS validation rejects, is answered with 401 and performs no handler
\* operation: no task is created, read, listed or canceled, no conversation
\* state changes and no session is created.
C21_NoTokenNoOperation ==
    [][\A request \in A2ARequests :
          (NotAuthenticated(request.authorization, request.answer)
           /\ A2ARequest(request.authorization, request.answer,
                         request.surface_header, request.body, request.uuid)) =>
              /\ returned'.op = "handle_jsonrpc"
              /\ returned'.status_code = 401
              /\ UNCHANGED <<task_objects, _tasks, _contexts, awaiting, clock>>
              /\ UNCHANGED agent_vars
              /\ UNCHANGED <<_sessions, _user_sessions>>]_vars

\* a request whose token the userinfo endpoint rejected was answered with
\* 401 after an authenticated request had created a task and a session
C21_Witness ==
    /\ returned.op = "handle_jsonrpc"
    /\ returned.status_code = 401
    /\ returned.message = "IMSValidationError"
    /\ Len(task_objects) > 0
    /\ DOMAIN _sessions # {}

----------------------------------------------------------------------------
(* The date resolver: datetime *)

\* the years that today is drawn from
MaxYears == 2

Years == 2023..(2022 + MaxYears)

\* the years the dates of the model lie in
CalendarYears == 2019..(2024 + MaxYears)

\* datetime(year, month, day): a date, at midnight
Date(year, month, day) == [year |-> year, month |-> month, day |-> day]

IsLeap(year) == (year % 4 = 0 /\ year % 100 # 0) \/ year % 400 = 0

DaysInMonth(year, month) ==
    CASE month \in {4, 6, 9, 11} -> 30
      [] month = 2 -> IF IsLeap(year) THEN 29 ELSE 28
      [] OTHER -> 31

\* the datetime constructor raises ValueError for anything else
ValidDate(year, month, day) ==
    /\ year \in 1..9999
    /\ month \in 1..12
    /\ day \in 1..DaysInMonth(year, month)

DaysBeforeYear(year) ==
    LET y == year - 1 IN y * 365 + (y \div 4) - (y \div 100) + (y \div 400)

RECURSIVE DaysBeforeMonth(_, _)
DaysBeforeMonth(year, month) ==
    IF month = 1 THEN 0
    ELSE DaysBeforeMonth(year, month - 1) + DaysInMonth(year, month - 1)

\* date.toordinal
toordinal(d) == DaysBeforeYear(d.year) + DaysBeforeMonth(d.year, d.month) + d.day

\* date.fromordinal
fromordinal(n) ==
    LET year == CHOOSE y \in CalendarYears :
                    DaysBeforeYear(y) < n /\ n <= DaysBeforeYear(y + 1)
        rest == n - DaysBeforeYear(year)
        month == CHOOSE m \in 1..12 :
                     /\ DaysBeforeMonth(year, m) < rest
                     /\ rest <= DaysBeforeMonth(year, m) + DaysInMonth(year, m)
    IN  Date(year, month, rest - DaysBeforeMonth(year, month))

\* date.weekday: Monday is 0 and Sunday is 6
weekday(d) == (toordinal(d) + 6) % 7

\* d + timedelta(days=n): the date of the result
AddDays(d, n) == fromordinal(toordinal(d) + n)

\* the days datetime.now() is read on
Todays ==
    {t \in [year : Years, month : 1..12, day : 1..31] :
        ValidDate(t.year, t.month, t.day)}

\* the hour of the day datetime.now() is read at: midnight, or later
Hours == {0, 12}

\* datetime.now() on the day at the hour
Now(d, hour) == [year |-> d.year, month |-> d.month, day |-> d.day, hour |-> hour]

\* date1 <= date2 and date1 < date2
DateLeq(d1, d2) == toordinal(d1) <= toordinal(d2)

DateLess(d1, d2) == toordinal(d1) < toordinal(d2)

----------------------------------------------------------------------------
(* The date resolver: the text of a message *)

\* A text is a sequence of tokens: a run of digits (its value and the number
\* of its digits, so that 08 and 8 differ), a run of letters, one of the
\* characters / - , or one blank.
Num(v, n) == [t |-> "num", v |-> v, n |-> n, s |-> ""]

Word(s) == [t |-> "word", v |-> 0, n |-> 0, s |-> s]

Sep(s) == [t |-> "sep", v |-> 0, n |-> 0, s |-> s]

Space == [t |-> "space", v |-> 0, n |-> 0, s |-> " "]

\* no text: Python's None where a string is expected
NoText == <<[t |-> "none", v |-> 0, n |-> 0, s |-> ""]>>

\* the number of digits of str(n)
Digits(n) == IF n < 10 THEN 1 ELSE IF n < 100 THEN 2 ELSE IF n < 1000 THEN 3 ELSE 4

\* f"{target.month}/{target.day}/{target.year}"
FormatDate(d) ==
    <<Num(d.month, Digits(d.month)), Sep("/"), Num(d.day, Digits(d.day)),
      Sep("/"), Num(d.year, Digits(d.year))>>

\* a text with the digits of a date as written: zero-padded or not
Slashed(m, mn, d, dn, y, yn) ==
    <<Num(m, mn), Sep("/"), Num(d, dn), Sep("/"), Num(y, yn)>>

\* str.lower on the words of the model
LowerWord(s) ==
    CASE s = "August" -> "august"
      [] s = "March" -> "march"
      [] s = "Feb" -> "feb"
      [] s = "January" -> "january"
      [] s = "Apr" -> "apr"
      [] s = "May" -> "may"
      [] s = "July" -> "july"
      [] s = "Aug" -> "aug"
      [] s = "October" -> "october"
      [] s = "Dec" -> "dec"
      [] s = "Next" -> "next"
      [] s = "Sooner" -> "sooner"
      [] OTHER -> s

\* message.lower()
LowerText(text) ==
    [i \in DOMAIN text |->
        IF text[i].t = "word" THEN Word(LowerWord(text[i].s)) ELSE text[i]]

\* _MONTH_MAP
_MONTH_MAP ==
    [january |-> 1, jan |-> 1, february |-> 2, feb |-> 2, march |-> 3, mar |-> 3,
     april |-> 4, apr |-> 4, may |-> 5, june |-> 6, jun |-> 6, july |-> 7,
     jul |-> 7, august |-> 8, aug |-> 8, september |-> 9, sep |-> 9, sept |-> 9,
     october |-> 10, oct |-> 10, november |-> 11, nov |-> 11, december |-> 12,
     dec |-> 12]

\* the token at position i, or a blank beyond the ends of the text
At(text, i) == IF i \in DOMAIN text THEN text[i] ELSE Space

\* a token of word characters (\w)
IsW(tok) == tok.t \in {"num", "word"}

\* \b before and after the token at position i, a token of word characters
BoundaryBefore(text, i) == ~IsW(At(text, i - 1))

BoundaryAfter(text, i) == ~IsW(At(text, i + 1))

\* \d{1,2} and \d{4} matching a whole run of digits
IsNum(tok, digits) == tok.t = "num" /\ tok.n \in digits

IsSep(tok, s) == tok.t = "sep" /\ tok.s = s

\* the least position of the text that the pattern matches at (re.search
\* finds the leftmost match), 0 if there is none
Search(text, Matches(_, _)) ==
    IF \E i \in DOMAIN text : Matches(text, i)
    THEN CHOOSE i \in DOMAIN text :
             Matches(text, i) /\ \A j \in 1..(i - 1) : ~Matches(text, j)
    ELSE 0

\* \b(\d{1,2}/\d{1,2}/\d{4})\b and \b(\d{1,2}-\d{1,2}-\d{4})\b at position i
NumericDateAt(text, i, s) ==
    /\ IsNum(At(text, i), {1, 2}) /\ BoundaryBefore(text, i)
    /\ IsSep(At(text, i + 1), s)
    /\ IsNum(At(text, i + 2), {1, 2})
    /\ IsSep(At(text, i + 3), s)
    /\ IsNum(At(text, i + 4), {4}) /\ BoundaryAfter(text, i + 4)

SlashDateAt_TwoDigits(text, i) ==
    /\ NumericDateAt(text, i, "/")
    /\ IsNum(At(text, i), {2}) /\ IsNum(At(text, i + 2), {2})

SlashDateAt(text, i) == NumericDateAt(text, i, "/")

DashDateAt(text, i) == NumericDateAt(text, i, "-")

\* \b([A-Za-z]+ \d{1,2},? \d{4})\b at position i, without and with the comma
NamedDateAt(text, i) ==
    /\ At(text, i).t = "word" /\ BoundaryBefore(text, i)
    /\ At(text, i + 1) = Space
    /\ IsNum(At(text, i + 2), {1, 2})
    /\ At(text, i + 3) = Space
    /\ IsNum(At(text, i + 4), {4}) /\ BoundaryAfter(text, i + 4)

NamedCommaDateAt(text, i) ==
    /\ At(text, i).t = "word" /\ BoundaryBefore(text, i)
    /\ At(text, i + 1) = Space
    /\ IsNum(At(text, i + 2), {1, 2})
    /\ IsSep(At(text, i + 3), ",")
    /\ At(text, i + 4) = Space
    /\ IsNum(At(text, i + 5), {4}) /\ BoundaryAfter(text, i + 5)

NamedAnyDateAt(text, i) == NamedDateAt(text, i) \/ NamedCommaDateAt(text, i)

\* the ordinal suffixes (?:st|nd|rd|th), the whole of a run of letters
IsSuffix(tok) == tok.t = "word" /\ tok.s \in {"st", "nd", "rd", "th"}

\* \b(month names)\s+(\d{1,2})(?:st|nd|rd|th)?\b at position i
MonthDayAt(text, i) ==
    /\ At(text, i).t = "word" /\ At(text, i).s \in DOMAIN _MONTH_MAP
    /\ BoundaryBefore(text, i)
    /\ At(text, i + 1) = Space
    /\ IsNum(At(text, i + 2), {1, 2})
    /\ \/ BoundaryAfter(text, i + 2)
       \/ IsSuffix(At(text, i + 3)) /\ BoundaryAfter(text, i + 3)

\* \b(\d{1,2})/(\d{1,2})\b(?!/\d) at position i
SlashPairAt(text, i) ==
    /\ IsNum(At(text, i), {1, 2}) /\ BoundaryBefore(text, i)
    /\ IsSep(At(text, i + 1), "/")
    /\ IsNum(At(text, i + 2), {1, 2}) /\ BoundaryAfter(text, i + 2)
    /\ ~(IsSep(At(text, i + 3), "/") /\ At(text, i + 4).t = "num")

\* (?:the\s+)?(\d{1,2})(?:st|nd|rd|th)\b at position i: the digits that end a
\* run of digits, followed by a suffix
DaySuffixAt(text, i) ==
    /\ At(text, i).t = "num"
    /\ IsSuffix(At(text, i + 1)) /\ BoundaryAfter(text, i + 1)

\* int(match.group(1)) of the day-only pattern: the last two digits
DayOfSuffix(tok) == IF tok.n <= 2 THEN tok.v ELSE tok.v % 100

\* 'word' in msg, for the words tomorrow, weekend, sooner and earlier
HasWord(text, words) ==
    \E i \in DOMAIN text : text[i].t = "word" /\ text[i].s \in words

\* 'next weekend' in msg, 'next week' in msg and next\s+(weekday) at i
NextThenAt(text, i, words) ==
    /\ At(text, i).t = "word" /\ At(text, i).s = "next"
    /\ At(text, i + 1) = Space
    /\ At(text, i + 2).t = "word" /\ At(text, i + 2).s \in words

NextWeekendAt(text, i) == NextThenAt(text, i, {"weekend"})

NextWeekAt(text, i) == NextThenAt(text, i, {"week", "weekend"})

day_names ==
    <<"monday", "tuesday", "wednesday", "thursday", "friday", "saturday", "sunday">>

NextWeekdayAt(text, i) ==
    NextThenAt(text, i, {day_names[k] : k \in DOMAIN day_names})

\* day_names.index(name)
IndexOf(name) == (CHOOSE k \in DOMAIN day_names : day_names[k] = name) - 1

----------------------------------------------------------------------------
(* The date resolver: _next_future_date and _extract_new_date *)

\* the first day of range(day, 0, -1) that datetime accepts for the month of
\* the year, 0 if it accepts none
FirstValidDay(year, month, day) ==
    IF \E d \in 1..day : ValidDate(year, month, d)
    THEN CHOOSE d \in 1..day :
             /\ ValidDate(year, month, d)
             /\ \A e \in (d + 1)..day : ~ValidDate(year, month, e)
    ELSE 0

\* _next_future_date, with today as datetime.now() returned it
_next_future_date_SameYear(now, month, day) ==
    IF FirstValidDay(now.year, month, day) = 0
    THEN AddDays(now, 1)
    ELSE Date(now.year, month, FirstValidDay(now.year, month, day))

_next_future_date(now, month, day) ==
    IF FirstValidDay(now.year, month, day) = 0
    THEN AddDays(now, 1)
    ELSE LET candidate == Date(now.year, month,
                               FirstValidDay(now.year, month, day))
         IN  IF DateLeq(candidate, now)
             THEN IF FirstValidDay(now.year + 1, month, day) = 0
                  THEN candidate
                  ELSE Date(now.year + 1, month,
                            FirstValidDay(now.year + 1, month, day))
             ELSE candidate

\* no date: the target that is None
NoDate == Date(0, 0, 0)

\* the day-only rule (lines 194-213): the date for the day, or NoDate
DayOnlyTarget_Exclusive(now, day) ==
    LET rolls == day < now.day
        month1 == IF rolls THEN (IF now.month = 12 THEN 1 ELSE now.month + 1)
                  ELSE now.month
        year1 == IF rolls /\ now.month = 12 THEN now.year + 1 ELSE now.year
        month2 == IF month1 = 12 THEN 1 ELSE month1 + 1
        year2 == IF month1 = 12 THEN year1 + 1 ELSE year1
    IN  IF ValidDate(year1, month1, day) THEN Date(year1, month1, day)
        ELSE IF ValidDate(year2, month2, day) THEN Date(year2, month2, day)
        ELSE NoDate

DayOnlyTarget(now, day) ==
    LET rolls == day <= now.day
        month1 == IF rolls THEN (IF now.month = 12 THEN 1 ELSE now.month + 1)
                  ELSE now.month
        year1 == IF rolls /\ now.month = 12 THEN now.year + 1 ELSE now.year
        month2 == IF month1 = 12 THEN 1 ELSE month1 + 1
        year2 == IF month1 = 12 THEN year1 + 1 ELSE year1
    IN  IF ValidDate(year1, month1, day) THEN Date(year1, month1, day)
        ELSE IF ValidDate(year2, month2, day) THEN Date(year2, month2, day)
        ELSE NoDate

\* str.split('/')
RECURSIVE SplitSlash(_)
SplitSlash(text) ==
    IF \E i \in DOMAIN text : IsSep(text[i], "/")
    THEN LET i == CHOOSE k \in DOMAIN text :
                      /\ IsSep(text[k], "/")
                      /\ \A j \in 1..(k - 1) : ~IsSep(text[j], "/")
         IN  <<SubSeq(text, 1, i - 1)>> \o SplitSlash(SubSeq(text, i + 1, Len(text)))
    ELSE <<text>>

NotBlank(tok) == tok.t # "space"

\* int(part) raises ValueError unless the part is one run of digits, with
\* blanks around it or not
IsInt(part) ==
    /\ Len(SelectSeq(part, NotBlank)) = 1
    /\ SelectSeq(part, NotBlank)[1].t = "num"

IntOf(part) == SelectSeq(part, NotBlank)[1].v

\* the current delivery date is a string that lines 261-262 make a datetime
\* of (no IndexError and no ValueError)
ParsesAsDate(current_delivery_date) ==
    LET parts == SplitSlash(current_delivery_date)
    IN  /\ Len(parts) >= 3
        /\ IsInt(parts[3]) /\ IsInt(parts[1]) /\ IsInt(parts[2])
        /\ ValidDate(IntOf(parts[3]), IntOf(parts[1]), IntOf(parts[2]))

ParsedDate(current_delivery_date) ==
    LET parts == SplitSlash(current_delivery_date)
    IN  Date(IntOf(parts[3]), IntOf(parts[1]), IntOf(parts[2]))

\* a string that is neither None nor empty
TruthyText(text) == text # NoText /\ text # <<>>

\* (delivery_dt - tomorrow).days, when the current delivery date gives a
\* delivery_dt that is after tomorrow at the time of day of now; 0 otherwise
SoonerDelta(now, current_delivery_date) ==
    IF /\ TruthyText(current_delivery_date)
       /\ ParsesAsDate(current_delivery_date)
       /\ toordinal(ParsedDate(current_delivery_date)) > toordinal(now) + 1
    THEN toordinal(ParsedDate(current_delivery_date)) - toordinal(now) - 1
            - (IF now.hour > 0 THEN 1 ELSE 0)
    ELSE 0

\* the 'sooner' / 'earlier' rule (lines 259-272), r being what randint returns
SoonerTarget_UpToDelivery(now, current_delivery_date, r) ==
    IF SoonerDelta(now, current_delivery_date) > 1
    THEN AddDays(now, 1 + r + 2)
    ELSE AddDays(now, 1)

SoonerTarget(now, current_delivery_date, r) ==
    IF SoonerDelta(now, current_delivery_date) > 1
    THEN AddDays(now, 1 + r)
    ELSE AddDays(now, 1)

\* 'next <weekday>' (lines 251-255)
NextWeekdayTarget_SameDay(now, name) ==
    AddDays(now, (IndexOf(name) - weekday(now)) % 7)

NextWeekdayTarget(now, name) ==
    LET days_ahead == (IndexOf(name) - weekday(now)) % 7
    IN  AddDays(now, IF days_ahead = 0 THEN 7 ELSE days_ahead)

\* the relative expressions (lines 218-272): the rule that applies and its
\* target
RelativeTarget(msg, now, current_delivery_date, r) ==
    LET days_to_saturday == (5 - weekday(now)) % 7
        days_to_next_monday == (7 - weekday(now)) % 7
    IN  CASE HasWord(msg, {"tomorrow"}) ->
               [rule |-> "tomorrow", target |-> AddDays(now, 1)]
          [] Search(msg, NextWeekendAt) # 0 ->
               [rule |-> "next weekend",
                target |-> AddDays(now, (IF days_to_saturday = 0 THEN 7
                                         ELSE days_to_saturday) + 7)]
          [] HasWord(msg, {"weekend"}) ->
               [rule |-> "weekend",
                target |-> AddDays(now, IF days_to_saturday = 0 /\ weekday(now) # 5
                                        THEN 6 ELSE days_to_saturday)]
          [] Search(msg, NextWeekAt) # 0 ->
               [rule |-> "next week",
                target |-> AddDays(now, (IF days_to_next_monday = 0 THEN 7
                                         ELSE days_to_next_monday) + r)]
          [] Search(msg, NextWeekdayAt) # 0 ->
               [rule |-> "next weekday",
                target |-> NextWeekdayTarget(now,
                               msg[Search(msg, NextWeekdayAt) + 2].s)]
          [] HasWord(msg, {"sooner", "earlier"}) ->
               [rule |-> "sooner",
                target |-> SoonerTarget(now, current_delivery_date, r)]
          [] OTHER -> [rule |-> "none", target |-> NoDate]

\* what random.randint can return in the call
RandomChoices(message, now, current_delivery_date) ==
    LET rule == RelativeTarget(LowerText(message), now, current_delivery_date, 0).rule
    IN  CASE rule = "next week" -> 0..4
          [] rule = "sooner" /\ SoonerDelta(now, current_delivery_date) > 1 ->
               0..(SoonerDelta(now, current_delivery_date) - 1)
          [] OTHER -> {0}

\* the explicit full date of lines 153-162: the matched text, or NoText
ExplicitDate(message) ==
    CASE Search(message, SlashDateAt) # 0 ->
           SubSeq(message, Search(message, SlashDateAt),
                  Search(message, SlashDateAt) + 4)
      [] Search(message, DashDateAt) # 0 ->
           SubSeq(message, Search(message, DashDateAt),
                  Search(message, DashDateAt) + 4)
      [] Search(message, NamedAnyDateAt) # 0 ->
           LET i == Search(message, NamedAnyDateAt)
           IN  SubSeq(message, i, IF NamedDateAt(message, i) THEN i + 4 ELSE i + 5)
      [] OTHER -> NoText

\* _extract_new_date: the rule that answers and the string returned (NoText
\* for None), with today as datetime.now() returned it and r as what
\* random.randint returns
_extract_new_date(message, current_delivery_date, now, r) ==
    LET msg == LowerText(message)
        named == Search(msg, MonthDayAt)
        pair == Search(msg, SlashPairAt)
        suffixed == Search(msg, DaySuffixAt)
        relative == RelativeTarget(msg, now, current_delivery_date, r)
    IN  IF ExplicitDate(message) # NoText
        THEN [rule |-> "explicit", value |-> ExplicitDate(message)]
        ELSE IF named # 0
        THEN [rule |-> "month day",
              value |-> FormatDate(_next_future_date(now, _MONTH_MAP[msg[named].s],
                                                     msg[named + 2].v))]
        ELSE IF /\ pair # 0
                /\ msg[pair].v \in 1..12
                /\ msg[pair + 2].v \in 1..31
        THEN [rule |-> "month day",
              value |-> FormatDate(_next_future_date(now, msg[pair].v,
                                                     msg[pair + 2].v))]
        ELSE IF /\ suffixed # 0
                /\ DayOfSuffix(msg[suffixed]) \in 1..31
                /\ DayOnlyTarget(now, DayOfSuffix(msg[suffixed])) # NoDate
        THEN [rule |-> "day only",
              value |-> FormatDate(DayOnlyTarget(now, DayOfSuffix(msg[suffixed])))]
        ELSE IF relative.target # NoDate
        THEN [rule |-> relative.rule, value |-> FormatDate(relative.target)]
        ELSE [rule |-> "none", value |-> NoText]

----------------------------------------------------------------------------
(* The date resolver: the calls *)

\* one name of the month, as users write it
MonthName(month) ==
    <<"January", "Feb", "march", "Apr", "May", "jun",
      "July", "Aug", "sept", "October", "nov", "Dec">>[month]

\* the suffix of the day
Ordinal(day) ==
    CASE day \in {1, 21, 31} -> "st"
      [] day \in {2, 22} -> "nd"
      [] day \in {3, 23} -> "rd"
      [] OTHER -> "th"

\* 'March 3', '3/3' and 'the 3rd'
NamedMessage(month, day) == <<Word(MonthName(month)), Space, Num(day, Digits(day))>>

PairMessage(month, day) == <<Num(month, Digits(month)), Sep("/"), Num(day, Digits(day))>>

DayMessage(day) == <<Word("the"), Space, Num(day, Digits(day)), Word(Ordinal(day))>>

\* the messages of the calls, by the rule they are written for
ExplicitMessages ==
    {Slashed(8, 1, 8, 1, 2028, 4),
     Slashed(8, 2, 8, 2, 2028, 4),
     Slashed(13, 2, 45, 2, 2028, 4),
     <<Num(8, 1), Sep("-"), Num(8, 1), Sep("-"), Num(2028, 4)>>,
     <<Word("August"), Space, Num(8, 1), Sep(","), Space, Num(2028, 4)>>}

MonthDays ==
    {<<1, 1>>, <<2, 28>>, <<2, 29>>, <<2, 30>>, <<4, 31>>, <<6, 15>>, <<12, 31>>}

MonthDayMessages ==
    {NamedMessage(md[1], md[2]) : md \in MonthDays}
    \cup {PairMessage(md[1], md[2]) : md \in MonthDays}
    \cup {<<Word("to"), Space, Word("March"), Space, Num(3, 1), Word("rd")>>,
          NamedMessage(3, 0),
          PairMessage(15, 28)}

DayOnlyMessages ==
    {DayMessage(day) : day \in {1, 3, 15, 28, 29, 30, 31, 45}}
    \cup {<<Num(29, 2), Word("th")>>}

RelativeMessages ==
    {<<Word("tomorrow")>>,
     <<Word("next"), Space, Word("weekend")>>,
     <<Word("this"), Space, Word("weekend")>>,
     <<Word("next"), Space, Word("week")>>,
     <<Word("hello")>>}
    \cup {<<Word("Next"), Space, Word(day_names[k])>> : k \in DOMAIN day_names}

SoonerMessages == {<<Word("Sooner")>>, <<Word("earlier")>>}

\* the date written with two digits for the month and the day
Padded(d) == Slashed(d.month, 2, d.day, 2, d.year, 4)

\* the current delivery dates of the calls on the day: none, the empty
\* string, dates from tomorrow on, a date in the past, and strings that are
\* no date
CurrentDeliveryDates(d) ==
    {NoText, <<>>}
    \cup {FormatDate(AddDays(d, k)) : k \in {1, 2, 3, 5}}
    \cup {Padded(AddDays(d, 4)),
          Slashed(1, 1, 1, 1, 2020, 4),
          Slashed(13, 2, 45, 2, 2028, 4),
          <<Num(2028, 4), Sep("-"), Num(3, 2), Sep("-"), Num(15, 2)>>}

\* a call of _extract_new_date that has not run yet
DateCall(message, current_delivery_date) ==
    [op |-> "call", message |-> message,
     current_delivery_date |-> current_delivery_date]

\* the calls on the day
ResolverCalls(d) ==
    {DateCall(message, NoText) :
        message \in ExplicitMessages \cup MonthDayMessages
                    \cup DayOnlyMessages \cup RelativeMessages}
    \cup {DateCall(<<Word("Sooner")>>, c) : c \in CurrentDeliveryDates(d)}
    \cup {DateCall(<<Word("earlier")>>, c) : c \in {NoText, FormatDate(AddDays(d, 3))}}
    \cup {DateCall(Slashed(8, 1, 8, 1, 2028, 4), FormatDate(AddDays(d, 3)))}

\* what _extract_new_date returned for the message and the current delivery
\* date; again says that the message was itself a result
DateResult(message, current_delivery_date, result, again) ==
    [op |-> "_extract_new_date", message |-> message,
     current_delivery_date |-> current_delivery_date,
     rule |-> result.rule, value |-> result.value, again |-> again]

\* the call runs, at an hour of the day and with what random.randint returns
\* if it is called
ExtractNewDate(hour) ==
    /\ returned.op = "call"
    /\ \E r \in RandomChoices(returned.message, Now(today, hour),
                              returned.current_delivery_date) :
           returned' = DateResult(returned.message, returned.current_delivery_date,
                                  _extract_new_date(returned.message,
                                                    returned.current_delivery_date,
                                                    Now(today, hour), r),
                                  FALSE)
    /\ UNCHANGED <<task_objects, _tasks, _contexts, awaiting, clock>>
    /\ UNCHANGED <<agent_vars, auth_vars, date_vars>>

\* the string a call returned is the message of a second call
ExtractAgain(current_delivery_date, hour) ==
    /\ returned.op = "_extract_new_date"
    /\ ~returned.again
    /\ returned.value # NoText
    /\ \E r \in RandomChoices(returned.value, Now(today, hour),
                              current_delivery_date) :
           returned' = DateResult(returned.value, current_delivery_date,
                                  _extract_new_date(returned.value,
                                                    current_delivery_date,
                                                    Now(today, hour), r),
                                  TRUE)
    /\ UNCHANGED <<task_objects, _tasks, _contexts, awaiting, clock>>
    /\ UNCHANGED <<agent_vars, auth_vars, date_vars>>

DateInit ==
    /\ task_objects = <<>> /\ _tasks = <<>> /\ _contexts = <<>>
    /\ awaiting = {} /\ clock = 0
    /\ AgentIdle /\ AuthIdle
    /\ today \in Todays
    /\ returned \in ResolverCalls(today)

DateNext ==
    \/ \E hour \in Hours : ExtractNewDate(hour)
    \/ \E current_delivery_date \in {NoText, FormatDate(AddDays(today, 5))},
          hour \in Hours :
           ExtractAgain(current_delivery_date, hour)

DateSpec == DateInit /\ [][DateNext]_vars

----------------------------------------------------------------------------
(* The date resolver: the rules *)

\* the call of the message has returned
Resolved(message) ==
    /\ returned.op = "_extract_new_date"
    /\ ~returned.again
    /\ returned.message = message

\* the month after the month of the year
MonthAfter(ym) ==
    IF ym.month = 12 THEN [year |-> ym.year + 1, month |-> 1]
    ELSE [year |-> ym.year, month |-> ym.month + 1]

\* the month the day-only expression names on the day: this month for a day
\* of the month that is still to come, the month after otherwise
DayOnlyMonth(now, d) ==
    IF d > now.day THEN [year |-> now.year, month |-> now.month]
    ELSE MonthAfter(now)

\* C25: a day-only expression with a day d in 1..31 resolves to day d of the
\* current month when d is greater than today's day of the month and of the
\* next month when d is less than or equal to it, December wrapping to
\* January of the next year; when that month has no day d, it resolves to
\* day d of the month after.
C25_DayOnlyRollsInclusive ==
    \A d \in 1..31 :
        (returned.op = "_extract_new_date" /\ Resolved(DayMessage(d))) =>
            LET first == DayOnlyMonth(today, d)
                month == IF ValidDate(first.year, first.month, d)
                         THEN first ELSE MonthAfter(first)
            IN  returned.value = FormatDate(Date(month.year, month.month, d))

\* 'the 3rd' on the 3rd of December has resolved to the 3rd of January
C25_Witness ==
    /\ Resolved(DayMessage(3))
    /\ today.month = 12 /\ today.day = 3
    /\ returned.value = FormatDate(Date(today.year + 1, 1, 3))

\* 'the 31st' has resolved to the 31st of the month after a month of 30 days
C25_WitnessInvalidDay ==
    /\ Resolved(DayMessage(31))
    /\ today.month = 4
    /\ returned.value = FormatDate(Date(today.year, 5, 31))

\* the date a string of FormatDate denotes
DateOf(text) == Date(text[5].v, text[1].v, text[3].v)

\* day d of the month of the year, or the last day of the month if it has no
\* day d
DayOrLast(year, month, d) ==
    Date(year, month,
         IF d > DaysInMonth(year, month) THEN DaysInMonth(year, month) ELSE d)

\* the month and day expression has been resolved, in words or in digits
ResolvedMonthDay(m, d) ==
    Resolved(NamedMessage(m, d)) \/ Resolved(PairMessage(m, d))

\* the date is after the day and not after the same day of the next year
WithinOneYear(date, now) ==
    /\ DateLess(now, date)
    /\ \/ date.year = now.year
       \/ /\ date.year = now.year + 1
          /\ \/ date.month < now.month
             \/ date.month = now.month /\ date.day <= now.day

\* the result is in month m, on day d or on the last day of the month if it
\* has no day d: the current year's if that is after today, else the next
\* year's
MonthDayResult(m, d) ==
    /\ returned.rule = "month day"
    /\ DateOf(returned.value).month = m
    /\ DateOf(returned.value) =
           DayOrLast(DateOf(returned.value).year, m, d)
    /\ DateLess(today, DateOf(returned.value))
    /\ DateOf(returned.value) =
           IF DateLess(today, DayOrLast(today.year, m, d))
           THEN DayOrLast(today.year, m, d)
           ELSE DayOrLast(today.year + 1, m, d)

\* February 28 before a leap year, and a day of February above 28
LeapDayAhead(m, d) ==
    /\ today.month = 2 /\ today.day = 28 /\ IsLeap(today.year + 1)
    /\ m = 2 /\ d > 28

\* C26 as stated: for a month m in 1..12 and a day d in 1..31 (the months
\* and days of MonthDays, written in words and in digits), month+day
\* resolution returns a date strictly after today and at most one year ahead,
\* in month m and on day d or the largest valid day below d, of the current
\* year when that date is after today and of the next year otherwise.
C26_Original ==
    \A md \in MonthDays :
        ResolvedMonthDay(md[1], md[2]) =>
            /\ MonthDayResult(md[1], md[2])
            /\ WithinOneYear(DateOf(returned.value), today)

\* C26, amended: as stated, except that on February 28 of a year before a
\* leap year a day of February above 28 resolves to February 29 of the next
\* year, one year and one day ahead.
C26_NextOccurrence ==
    \A md \in MonthDays :
        ResolvedMonthDay(md[1], md[2]) =>
            /\ MonthDayResult(md[1], md[2])
            /\ IF LeapDayAhead(md[1], md[2])
               THEN DateOf(returned.value) = Date(today.year + 1, 2, 29)
               ELSE WithinOneYear(DateOf(returned.value), today)

\* 'Feb 29' has been resolved on February 28 of 2023 to February 29 of 2024
C26_Witness ==
    /\ Resolved(NamedMessage(2, 29))
    /\ today = Date(2023, 2, 28)
    /\ returned.value = FormatDate(Date(2024, 2, 29))

\* a string that _extract_new_date returned has been resolved in its turn
ResolvedAgain ==
    /\ returned.op = "_extract_new_date"
    /\ returned.again

\* C27: date resolution is idempotent: the string that resolving a date
\* expression returned, resolved again, is returned unchanged, by the
\* explicit-date rule, whatever today's date and the current delivery date
\* are.
C27_ResolutionIdempotent ==
    ResolvedAgain =>
        /\ returned.rule = "explicit"
        /\ returned.value = returned.message

\* tomorrow's date in M/D/YYYY, which a call returned, has been resolved again
\* with a current delivery date
C27_Witness ==
    /\ ResolvedAgain
    /\ returned.message = FormatDate(AddDays(today, 1))
    /\ returned.current_delivery_date # NoText
    /\ returned.value = returned.message

\* a numeric month/day/year string without zero-padding that denotes a date
\* of the calendar
IsNumericDate(text) ==
    /\ Len(text) = 5
    /\ \A i \in {1, 3, 5} : text[i].t = "num" /\ text[i].n = Digits(text[i].v)
    /\ \A i \in {2, 4} : text[i] = Sep("/")
    /\ ValidDate(text[5].v, text[1].v, text[3].v)

\* C28: every result of _extract_new_date that is not none, for every message
\* and every rule (explicit full date, partial, day-only, relative), is a
\* numeric month/day/year string with no zero-padding that denotes a valid
\* calendar date.
C28_ResultIsNumericDate ==
    (returned.op = "_extract_new_date" /\ returned.value # NoText) =>
        IsNumericDate(returned.value)

\* the same of the results of the rules after the explicit one
C28_LaterRulesNumericDate ==
    (/\ returned.op = "_extract_new_date"
     /\ returned.value # NoText
     /\ returned.rule # "explicit") =>
        IsNumericDate(returned.value)

\* a 'sooner' or 'earlier' message has been resolved
ResolvedSooner ==
    /\ returned.op = "_extract_new_date"
    /\ ~returned.again
    /\ returned.message \in SoonerMessages

\* the current delivery date is there, is a date, and is after the day
DeliveryAfter(current_delivery_date, d) ==
    /\ TruthyText(current_delivery_date)
    /\ ParsesAsDate(current_delivery_date)
    /\ DateLess(d, ParsedDate(current_delivery_date))

\* C29 as stated: 'sooner' / 'earlier' resolves to a date strictly after
\* tomorrow and strictly before the current delivery date whenever such a date
\* exists, and to tomorrow when no such date exists or when the current
\* delivery date is missing, invalid or not in the future; the result is never
\* earlier than tomorrow.
C29_Original ==
    ResolvedSooner =>
        LET tomorrow == AddDays(today, 1)
            result == DateOf(returned.value)
        IN  /\ returned.rule = "sooner"
            /\ DateLeq(tomorrow, result)
            /\ IF DeliveryAfter(returned.current_delivery_date, AddDays(today, 2))
               THEN /\ DateLess(tomorrow, result)
                    /\ DateLess(result, ParsedDate(returned.current_delivery_date))
               ELSE result = tomorrow

\* C29, amended: 'sooner' / 'earlier' resolves to a date from tomorrow on and
\* strictly before the current delivery date whenever such a date exists, and
\* to tomorrow when no such date exists or when the current delivery date is
\* missing, invalid or not in the future; the result is never earlier than
\* tomorrow.
C29_SoonerFromTomorrow ==
    ResolvedSooner =>
        LET tomorrow == AddDays(today, 1)
            result == DateOf(returned.value)
        IN  /\ returned.rule = "sooner"
            /\ DateLeq(tomorrow, result)
            /\ IF DeliveryAfter(returned.current_delivery_date, tomorrow)
               THEN DateLess(result, ParsedDate(returned.current_delivery_date))
               ELSE result = tomorrow

\* 'sooner' has resolved to tomorrow with a delivery date five days ahead
C29_Witness ==
    /\ ResolvedSooner
    /\ returned.current_delivery_date = FormatDate(AddDays(today, 5))
    /\ returned.value = FormatDate(AddDays(today, 1))

\* 'sooner' has resolved to a date between tomorrow and the delivery date
C29_WitnessBetween ==
    /\ ResolvedSooner
    /\ returned.current_delivery_date = FormatDate(AddDays(today, 5))
    /\ returned.value = FormatDate(AddDays(today, 4))

\* 'next <weekday>' for the weekday number k (Monday is 0) has been resolved
ResolvedNextWeekday(k) == Resolved(<<Word("Next"), Space, Word(day_names[k + 1])>>)

\* C30: 'next <weekday>' resolves to the first date strictly after today that
\* falls on the named weekday: it is between 1 and 7 days ahead, and exactly 7
\* days ahead when today is that weekday.
C30_NextWeekdayStrictlyAfter ==
    \A k \in 0..6 :
        (returned.op = "_extract_new_date" /\ ResolvedNextWeekday(k)) =>
            LET result == DateOf(returned.value)
                ahead == toordinal(result) - toordinal(today)
            IN  /\ returned.rule = "next weekday"
                /\ weekday(result) = k
                /\ ahead \in 1..7
                /\ \A n \in 1..(ahead - 1) : weekday(AddDays(today, n)) # k
                /\ (weekday(today) = k) => ahead = 7

\* 'next monday' has been resolved on a Monday to the Monday after
C30_Witness ==
    /\ ResolvedNextWeekday(0)
    /\ weekday(today) = 0
    /\ returned.value = FormatDate(AddDays(today, 7))

\* what 'weekend' and 'this weekend' resolve to on the day
WeekendResults(now) ==
    {DateOf(_extract_new_date(message, NoText, now, 0).value) :
        message \in {<<Word("weekend")>>, <<Word("this"), Space, Word("weekend")>>}}

\* the upcoming Saturday: the day itself on a Saturday
UpcomingSaturday(d) == AddDays(d, (5 - weekday(d)) % 7)

\* C31: for every day of the week that today can be, 'next weekend' resolves
\* to a Saturday, and that Saturday is exactly 7 days after the Saturday that
\* 'weekend' / 'this weekend' resolves to for the same today (the upcoming
\* Saturday, which is today itself when today is a Saturday).
C31_NextWeekendWeekAfterWeekend ==
    Resolved(<<Word("next"), Space, Word("weekend")>>) =>
        /\ returned.rule = "next weekend"
        /\ weekday(DateOf(returned.value)) = 5
        /\ \A hour \in Hours :
               WeekendResults(Now(today, hour)) = {UpcomingSaturday(today)}
        /\ DateOf(returned.value) = AddDays(UpcomingSaturday(today), 7)

\* the same on the days that are not a Saturday
C31_ExceptOnSaturday ==
    (Resolved(<<Word("next"), Space, Word("weekend")>>) /\ weekday(today) # 5) =>
        /\ returned.rule = "next weekend"
        /\ weekday(DateOf(returned.value)) = 5
        /\ \A hour \in Hours :
               WeekendResults(Now(today, hour)) = {UpcomingSaturday(today)}
        /\ DateOf(returned.value) = AddDays(UpcomingSaturday(today), 7)

\* on a Saturday 'weekend' is today and 'next weekend' is 14 days ahead
C31_OnSaturday ==
    (Resolved(<<Word("next"), Space, Word("weekend")>>) /\ weekday(today) = 5) =>
        /\ WeekendResults(Now(today, 0)) = {Date(today.year, today.month, today.day)}
        /\ DateOf(returned.value) = AddDays(today, 14)

----------------------------------------------------------------------------
(* Turns of two contexts, in any order *)

\* the messages of the turns: the order of the store with its e-mail or no
\* order, one date, one address
InterleaveMessages ==
    {m \in Messages : m.email \in {None, "e1@x"} /\ m.date \in {None, "d1"}}

InterleaveNext ==
    \E c \in Contexts, m \in InterleaveMessages, llm_ok \in BOOLEAN :
        Turn(c, m, llm_ok)

InterleaveSpec == Init /\ [][InterleaveNext]_vars

\* the conversation state of the context: its entry of _session_state, if it
\* has one, and its history
ConversationState(ss, h, c) ==
    [known |-> c \in DOMAIN ss,
     state |-> IF c \in DOMAIN ss THEN ss[c] ELSE <<>>,
     history |-> h[c]]

\* C32: a turn processed for context id A changes no conversation state
\* (verified order, pending date, pending address, history) of any other
\* context id B, whatever the order of the turns of the contexts.
C32_TurnLeavesOtherContexts ==
    [][\A b \in Contexts :
           b # out'.context_id =>
               ConversationState(session_state', conversation_history', b)
                   = ConversationState(session_state, conversation_history, b)]_vars

\* a turn of c1 has run while c2 has a verified order, a pending date and a
\* history, and c1 has a pending address
C32_Witness ==
    /\ out.context_id = "c1"
    /\ "c2" \in DOMAIN session_state
    /\ PendingDate \in DOMAIN session_state["c2"]
    /\ conversation_history["c2"] # <<>>
    /\ "c1" \in DOMAIN session_state
    /\ PendingAddress \in DOMAIN session_state["c1"]

----------------------------------------------------------------------------
(* The text completion fails *)

\* the replies of _fallback_response
FallbackReplies == {"fallback_verified", "fallback_not_found", "fallback_default"}

\* C33: when the text-completion call fails in a turn, process_message
\* returns the deterministic fallback reply without raising, and the
\* conversation state (verified order and pending slots) and the order store
\* after the turn are the same as after the same turn with a successful
\* text-completion call.
C33_FailedCompletionSameState ==
    \A c \in Callers, m \in Messages :
        (llm_enabled /\ Result(c, m, TRUE).out.reply = "llm") =>
            /\ Result(c, m, FALSE).out.reply \in FallbackReplies
            /\ Result(c, m, FALSE).session_state = Result(c, m, TRUE).session_state
            /\ Result(c, m, FALSE).orders = Result(c, m, TRUE).orders

\* the text completion has failed in a turn that applied a pending date, and
\* the turn has answered with the fallback reply
C33_Witness ==
    /\ llm_enabled
    /\ out.reply \in FallbackReplies
    /\ out.update_result = "date_updated"
    /\ out.context_id \in DOMAIN session_state
    /\ PendingDate \notin DOMAIN session_state[out.context_id]

----------------------------------------------------------------------------
(* What a turn reports of its updates *)

\* update_result for a failed update of the field of the call
FailureOf(call) ==
    IF "delivery_date" \in DOMAIN call.updates THEN "date_failed"
    ELSE "address_failed"

\* C34: whenever a store update fails in a confirmation turn, the outcome
\* that the turn hands to the reply reports the failure of that field, also
\* when a date and an address are both pending and the date update fails.
C34_FailureReported ==
    \A i \in DOMAIN out.issued :
        ~out.issued[i].success => out.update_result = FailureOf(out.issued[i])

\* the same of the turns that issue one update
C34_SingleFailureReported ==
    (Len(out.issued) = 1 /\ ~out.issued[1].success) =>
        out.update_result = FailureOf(out.issued[1])

\* in a turn that issues two updates, the failure of the address update is
\* reported and nothing is said of the date update
C34_SecondResultReplacesFirst ==
    Len(out.issued) = 2 =>
        out.update_result = (IF out.issued[2].success THEN "address_updated"
                             ELSE "address_failed")

\* the context id belongs to an unexpired session of another user than the
\* caller
BelongsToOtherUser(user_info, context_id) ==
    /\ context_id \in DOMAIN _sessions
    /\ _sessions[context_id].user_info.user_id # user_info.user_id
    /\ ~is_expired(_sessions[context_id], time)

\* C35: create_session called with a context_id that belongs to an unexpired
\* session of a different user does not return, replace or modify that user's
\* session: the caller's session is created under a newly generated context
\* id, and the other user's session stays retrievable under the original
\* context id.
C35_OtherUsersSessionKept ==
    [][\A user_info \in UserInfos, surface \in Surfaces, context_id \in Uuids :
           (/\ BelongsToOtherUser(user_info, context_id)
            /\ CreateSession(user_info, surface, context_id, None)) =>
               /\ returned'.session.context_id # context_id
               /\ context_id \in DOMAIN _sessions'
               /\ _sessions'[context_id] = _sessions[context_id]]_vars

\* what the code does instead: the caller's session replaces the other
\* user's under the same context id, and the other user's list keeps the id
C35_CallerTakesContextId ==
    [][\A user_info \in UserInfos, surface \in Surfaces, context_id \in Uuids :
           (/\ BelongsToOtherUser(user_info, context_id)
            /\ CreateSession(user_info, surface, context_id, None)) =>
               /\ returned'.constructed
               /\ returned'.session.context_id = context_id
               /\ _sessions'[context_id] = returned'.session
               /\ _sessions'[context_id].user_info = user_info
               /\ InList(_user_sessions'[_sessions[context_id].user_info.user_id],
                         context_id)]_vars

\* the sessions in a list
Elements(list) == {list[i] : i \in DOMAIN list}

\* the unexpired sessions that belong to the user
UnexpiredSessionsOf(user_id) ==
    {_sessions[c] : c \in {k \in DOMAIN _sessions :
                              /\ _sessions[k].user_info.user_id = user_id
                              /\ ~is_expired(_sessions[k], time)}}

\* C36: after any sequence of create_session, get_session and
\* cleanup_expired calls, get_user_sessions(u) returns exactly the unexpired
\* sessions that belong to user u: every unexpired session created for u is
\* in the result, and no expired session and no session of another user is.
C36_UserSessionsExact ==
    [][\A user_id \in UserIds :
           GetUserSessions(user_id) =>
               Elements(returned'.value) = UnexpiredSessionsOf(user_id)]_vars

\* no expired session is in the result
C36_NoExpiredSession ==
    [][\A user_id \in UserIds :
           GetUserSessions(user_id) =>
               \A s \in Elements(returned'.value) : ~is_expired(s, time)]_vars

\* no session of another user is in the result
C36_NoForeignSession ==
    [][\A user_id \in UserIds :
           GetUserSessions(user_id) =>
               \A s \in Elements(returned'.value) :
                   s.user_info.user_id = user_id]_vars

\* every unexpired session of the user is in the result
C36_NoneMissed ==
    [][\A user_id \in UserIds :
           GetUserSessions(user_id) =>
               UnexpiredSessionsOf(user_id) \subseteq Elements(returned'.value)]_vars

----------------------------------------------------------------------------
(* Turns of one context over two orders *)

ScopeOrderIds == {"O1", "O2"}

\* the messages of the turns: no order, an order with its own e-mail, or the
\* first order with the e-mail of the second; one date, one address
ScopeMessages ==
    {m \in [order_id : ScopeOrderIds \cup {None},
            email : MessageEmails \cup {None},
            date : {None, "d1"},
            address : AddressNames \cup {None},
            confirm : BOOLEAN,
            cancel : {FALSE}] :
        /\ (m.order_id = None) <=> (m.email = None)
        /\ m.order_id = "O2" => m.email = SeedEmail("O2")}

ScopeInit ==
    /\ llm_enabled \in BOOLEAN
    /\ orders = [o \in ScopeOrderIds |-> SeedRow(o)]
    /\ session_state = <<>>
    /\ conversation_history = [c \in Contexts |-> <<>>]
    /\ out = NoOut
    /\ HandlerIdle
    /\ AuthIdle
    /\ DateIdle

ScopeNext ==
    \E c \in TurnContexts, m \in ScopeMessages, llm_ok \in BOOLEAN :
        Turn(c, m, llm_ok)

ScopeSpec == ScopeInit /\ [][ScopeNext]_vars

\* the order id and e-mail of the snapshot of the context
Identity(ss, c) ==
    [order_id |-> ss[c][VerifiedOrder].order_id,
     email |-> ss[c][VerifiedOrder].email]

\* every update of the turn names the order id and e-mail of the snapshot the
\* context had, and no row of another order changes in the turn
UpdatesScopedBySnapshot ==
    LET c == out'.context_id
    IN  /\ \A i \in DOMAIN out'.issued :
               /\ IsVerified(session_state, c)
               /\ out'.issued[i].order_id = Identity(session_state, c).order_id
               /\ out'.issued[i].email = Identity(session_state, c).email
        /\ \A k \in DOMAIN orders :
               orders'[k] # orders[k] =>
                   /\ IsVerified(session_state, c)
                   /\ orders[k].order_id = Identity(session_state, c).order_id
                   /\ orders[k].email = Identity(session_state, c).email

\* a context gets a snapshot, or the snapshot of another order, only in a
\* turn of its own that verified an order, and the snapshot is a row of the
\* store
SnapshotSetFromStore ==
    \A c \in Contexts :
        (/\ IsVerified(session_state', c)
         /\ IsVerified(session_state, c) =>
                Identity(session_state', c) # Identity(session_state, c)) =>
            /\ out'.context_id = c
            /\ out'.reply \in {"greeting", "fallback_verified"}
            /\ \E k \in DOMAIN orders : session_state'[c][VerifiedOrder] = orders[k]

\* C37: every order-store update issued for a context is scoped by the order
\* id and email of that context's verified-order snapshot, and that snapshot
\* was set only from a record the store returned for an order id and email of
\* a message of the same context; a context never writes to an order it has
\* not verified.
C37_UpdatesScopedToVerifiedOrder ==
    [][UpdatesScopedBySnapshot /\ SnapshotSetFromStore]_vars

\* the context verified the second order and has updated its date; the first
\* order is as it was
C37_Witness ==
    /\ out.context_id = "c1"
    /\ Len(out.issued) = 1 /\ out.issued[1].success
    /\ out.issued[1].order_id = "O2"
    /\ orders["O2"].delivery_date = "d1"
    /\ orders["O1"] = SeedRow("O1")

----------------------------------------------------------------------------
(* C38 *)

\* the turn that led to this state applied a date (an address) successfully
AppliedDate ==
    \E i \in DateCalls(out.issued) : out.issued[i].success

AppliedAddress ==
    \E i \in AddressCalls(out.issued) : out.issued[i].success

\* a confirming message that carries no new date and no new address
BareConfirmations ==
    {m \in Messages : m.confirm /\ m.date = None /\ m.address = None}

\* C38: a staged value is applied successfully at most once: after a
\* successful apply the pending slot is empty, so a further confirmation turn
\* with no new value issues no order-store update for it.
C38_AppliedAtMostOnce ==
    \A c \in TurnContexts :
        /\ (out.context_id = c /\ AppliedDate) =>
               /\ ~HasPending(session_state, c, PendingDate)
               /\ \A m \in BareConfirmations, llm_ok \in BOOLEAN :
                      DateCalls(Result(c, m, llm_ok).out.issued) = {}
        /\ (out.context_id = c /\ AppliedAddress) =>
               /\ ~HasPending(session_state, c, PendingAddress)
               /\ \A m \in BareConfirmations, llm_ok \in BOOLEAN :
                      AddressCalls(Result(c, m, llm_ok).out.issued) = {}

\* a confirmation has applied the date and the address in one turn; both slots
\* are empty and the context is still verified
C38_Witness ==
    /\ out.context_id = "c1"
    /\ AppliedDate /\ AppliedAddress
    /\ IsVerified(session_state, "c1")
    /\ ~HasPending(session_state, "c1", PendingDate)
    /\ ~HasPending(session_state, "c1", PendingAddress)

----------------------------------------------------------------------------
(* C39 *)

\* the cache holds an entry for the token that is older than the cache TTL or
\* whose token expiry has passed
CachedAndStale(token) ==
    /\ _hash_token(token) \in DOMAIN _cache
    /\ \/ time - _cache[_hash_token(token)].cached_at > _cache_ttl
       \/ _cache[_hash_token(token)].user_info.expires_at < time

\* the cache after the call holds nothing the cache before it did not hold
AddsNothing ==
    /\ DOMAIN _cache' \subseteq DOMAIN _cache
    /\ \A k \in DOMAIN _cache' : _cache'[k] = _cache[k]

\* C39: validate_token never returns user info from a cache entry that is
\* older than the cache TTL or whose token expiry time has passed: such an
\* entry is deleted and the IMS endpoint is called again; and a validation that
\* IMS rejects raises IMSValidationError and adds nothing to the cache.
C39_StaleEntryNotServed ==
    [][\A token \in Tokens, answer \in ImsAnswers :
          ValidateToken(token, answer) =>
              /\ CachedAndStale(token) =>
                    /\ returned'.called_ims
                    /\ ims_calls' = ims_calls + 1
                    /\ _hash_token(token) \in DOMAIN _cache' =>
                           /\ returned'.raised = None
                           /\ _cache'[_hash_token(token)] =
                                  [user_info |-> returned'.user_info,
                                   cached_at |-> time]
                    /\ returned'.raised = None =>
                           returned'.user_info =
                               _call_ims_userinfo(token, answer, time).user_info
              /\ (returned'.called_ims /\ answer \in ImsRejects) =>
                    /\ returned'.raised = "IMSValidationError"
                    /\ returned'.user_info = NoUserInfo
                    /\ _hash_token(token) \notin DOMAIN _cache'
                    /\ AddsNothing]_vars

\* the endpoint was asked a second time, at the end of the modelled time, and
\* rejected the token; the cache holds nothing for the token
C39_Witness ==
    /\ returned.op = "validate_token"
    /\ returned.called_ims
    /\ returned.raised = "IMSValidationError"
    /\ returned.at = MaxTime
    /\ ims_calls = 2
    /\ _hash_token(returned.token) \notin DOMAIN _cache

\* a stale entry: cached earlier, and past the TTL or the expiry of its token
C39_WitnessStale ==
    \E token \in Tokens : CachedAndStale(token)

----------------------------------------------------------------------------
(* C40 *)

\* the agent call of a suspended send_message returns or raises, and the
\* event loop resumes the call
AgentCallEnds(obj) ==
    \E replied \in BOOLEAN :
        ResumeSend(obj, replied) /\ UNCHANGED <<auth_vars, date_vars>>

\* the handler when every agent call that was started ends
FairHandlerSpec ==
    HandlerSpec /\ \A obj \in 1..MaxTasks : WF_awaiting(AgentCallEnds(obj))

Working(obj) ==
    obj \in DOMAIN task_objects /\ task_objects[obj].state = "working"

Ended(obj) ==
    /\ obj \in DOMAIN task_objects
    /\ task_objects[obj].state \in {"completed", "failed", "canceled"}

\* C40: every task created by send_message eventually leaves the working
\* state and reaches completed, failed or canceled, provided the agent call
\* eventually returns or raises; no task stays in working forever.
C40_TaskEnds ==
    \A obj \in 1..MaxTasks : Working(obj) ~> Ended(obj)

\* two tasks were created and both have ended, one completed and one failed,
\* and no call is suspended
C40_Witness ==
    /\ Len(task_objects) = MaxTasks
    /\ awaiting = {}
    /\ \A obj \in DOMAIN task_objects : Ended(obj)
    /\ \E obj \in DOMAIN task_objects : task_objects[obj].state = "completed"
    /\ \E obj \in DOMAIN task_objects : task_objects[obj].state = "failed"
====
